---------------------------- MODULE Spec2Model ----------------------------
(***************************************************************************)
(* State-machine model of the sprite strip generator hook                  *)
(* (src/src/hooks/useSpriteStripGenerator.ts).                             *)
(*                                                                         *)
(* JavaScript runs one job at a time.  A run of generateSpriteStrip is a   *)
(* chain of synchronous blocks separated by awaits; `active` names the run *)
(* whose synchronous block (or promise continuation) is executing, 0 when  *)
(* the event loop is free to dispatch a loader callback, a timer, an image *)
(* onload or a user call.  Every action is one step of one block.          *)
(***************************************************************************)
EXTENDS Integers, Sequences, FiniteSets, TLC

----------------------------------------------------------------------------
(* Bounds of the model *)

\* invocations of generateSpriteStrip that can be in flight at once
MaxRuns == 2

\* the largest options.frameCount
MaxFrameCount == 3

\* the largest options.maxTextures
MaxTextures == 3

\* preview URLs created in one mounting of the hook
MaxPreviewUrls == 3

(* Program constants *)

DefaultFrameCount == 18

\* the centring tolerance 0.001 of lines 465 and 495; lengths are in units of 0.0001
Epsilon == 10

\* const fov = 50 (line 324); new THREE.PerspectiveCamera(50, ...) (line 417)
Fov == 50

----------------------------------------------------------------------------
(* Values *)

None == "none"

Runs == 1..MaxRuns

Decoders == <<"GLTF", "FBX", "OBJ">>

\* what a three.js loader hands to its onError callback
DecoderErrors == {"NetworkError", "ParseError"}

\* the model File argument; None is a missing file
ModelFiles == {"model.bin"}

\* texture files; whether the bitmap decodes is a property of the bytes
TextureFiles == {"good.png", "corrupt.png"}

TextureDecodes(file) == file = "good.png"

\* files a user can drop on the texture manager
UploadFiles == TextureFiles \cup {"notes.txt"}

\* '.' + file.name.split('.').pop()?.toLowerCase()
FileExtension(file) == IF file = "notes.txt" THEN ".txt" ELSE ".png"

\* options.acceptedFormats || ['.png', '.jpg', '.jpeg', '.webp']
AcceptedFormats == {".png", ".jpg", ".jpeg", ".webp"}

\* uploads of one call of addTextures
Uploads ==
    {<<a>> : a \in UploadFiles} \cup {<<a, b>> : a \in UploadFiles, b \in TextureFiles}

\* THREE.Vector3; a vector computed from an infinite scale has NaN components
Vec(x, y, z) == [nan |-> FALSE, x |-> x, y |-> y, z |-> z]

NaNVec == [nan |-> TRUE, x |-> 0, y |-> 0, z |-> 0]

\* What the hook can observe of a loaded model, through Box3.setFromObject: the
\* size of its bounding box (0 for a model without extent), and the centre of
\* the box relative to the object's position: as loaded (raw), scaled to fit
\* (scaled), and scaled and turned about the vertical axis (turned).  The box of
\* a turned model is not the turned box, so turned is a value of its own.
Geometry(size, raw, scaled, turned) ==
    [size |-> size, raw |-> raw, scaled |-> scaled, turned |-> turned]

NoGeometry == Geometry(0, Vec(0, 0, 0), Vec(0, 0, 0), Vec(0, 0, 0))

\* a model off the origin whose turned box is far from where its box was
OffCentreModel ==
    Geometry(40000, Vec(30000, 10000, -20000), Vec(12750, 4250, -8500),
             Vec(-8500, 4250, 12750))

\* models of every kind: centred and symmetric; off centre; turned boxes that
\* stay within the tolerance, on it, and beyond it on one axis only; and a
\* model without extent (a single vertex)
Geometries ==
    {Geometry(20000, Vec(0, 0, 0), Vec(0, 0, 0), Vec(0, 0, 0)),
     OffCentreModel,
     Geometry(40000, Vec(200, 0, 0), Vec(85, 0, 0), Vec(90, 0, -6)),
     Geometry(40000, Vec(200, 0, 0), Vec(85, 0, 0), Vec(95, 0, -10)),
     Geometry(40000, Vec(200, 0, 0), Vec(85, 0, 0), Vec(88, 0, 585)),
     Geometry(0, Vec(10000, 20000, 30000), NaNVec, NaNVec)}

\* the scene a loader hands to its onLoad callback for a file
Parse(file) == OffCentreModel

RatioOptions == {None, "16:9", "4:3", "1:1", "auto"}

\* options.frameCount as the caller passes it: a count, or a value below 1.  An
\* absent option, 0 in ResolveFrameCount, means 18 frames and is not drawn here.
FrameCountOptions == {-1} \cup (1..MaxFrameCount)

NoData == [kind |-> "null"]

LoadFailedMessage == "Failed to load 3D model. Supported formats: GLTF, FBX, OBJ"

DefaultFailureMessage == "Failed to generate sprite strip. Supported formats: GLTF, FBX, OBJ"

TextureFailedMessage == "Failed to load texture file"

\* what the onGenerate / onSubmit collaborators may throw: an Error, or a bare value
HookErrors == {[isError |-> TRUE, message |-> "hook failed", reasons |-> <<>>],
               [isError |-> FALSE, message |-> "rejected", reasons |-> <<>>]}

----------------------------------------------------------------------------
(* Progress values are rationals <<numerator, denominator>> in lowest terms *)

RECURSIVE GCD(_, _)
GCD(a, b) == IF b = 0 THEN a ELSE GCD(b, a % b)

Rat(n, d) == LET g == GCD(n, d) IN <<n \div g, d \div g>>

RatLeq(a, b) == a[1] * b[2] <= b[1] * a[2]

RatLess(a, b) == a[1] * b[2] < b[1] * a[2]

\* The non-negative numbers of the transform computation, with the two values
\* IEEE 754 arithmetic adds to them: Infinity is <<1, 0>> and NaN is <<0, 0>>.
NaN == <<0, 0>>

Infinity == <<1, 0>>

Number(n, d) == IF d # 0 THEN Rat(n, d) ELSE IF n = 0 THEN NaN ELSE Infinity

\* a / b: x / 0 is Infinity, 0 / 0 and Infinity / Infinity are NaN
Quotient(a, b) ==
    CHOOSE q \in {IF u = NaN \/ v = NaN THEN NaN ELSE Number(u[1] * v[2], u[2] * v[1]) :
                     u \in {a}, v \in {b}} : TRUE

\* a * b: 0 * Infinity is NaN
Product(a, b) ==
    CHOOSE p \in {IF u = NaN \/ v = NaN THEN NaN ELSE Number(u[1] * v[1], u[2] * v[2]) :
                     u \in {a}, v \in {b}} : TRUE

\* Math.max(a, b): NaN if either argument is
MathMax(a, b) ==
    CHOOSE m \in {IF u = NaN \/ v = NaN THEN NaN
                  ELSE IF u[1] * v[2] >= v[1] * u[2] THEN u ELSE v :
                     u \in {a}, v \in {b}} : TRUE

\* a >= b: false when either is NaN
AtLeast(a, b) == a # NaN /\ b # NaN /\ a[1] * b[2] >= b[1] * a[2]

----------------------------------------------------------------------------
(* Pure helpers of the hook *)

GetCanvasDimensions(ratio) ==
    CASE ratio = "16:9" -> [width |-> 1920, height |-> 1080]
      [] ratio = "4:3"  -> [width |-> 1600, height |-> 1200]
      [] ratio = "1:1"  -> [width |-> 1080, height |-> 1080]
      [] ratio = "auto" -> [width |-> 1920, height |-> 1080]
      [] OTHER          -> [width |-> 1920, height |-> 1080]

\* options.frameCount || 18
ResolveFrameCount(fc) == IF fc = 0 THEN DefaultFrameCount ELSE fc

\* options.ratio || '16:9'
ResolveRatio(ratio) == IF ratio = None THEN "16:9" ELSE ratio

\* as TextureToUse, but the argument wins over the applied texture
TextureToUsePrefersArgument(applied, textureFile) ==
    IF textureFile # None THEN textureFile ELSE applied

\* appliedTexture || textureFile
TextureToUse(applied, textureFile) == IF applied # None THEN applied ELSE textureFile

\* as NextDecoder, but the FBX loader is left out of the chain
NextDecoderSkipsFbx(k) == IF k < Len(Decoders) THEN Len(Decoders) ELSE 0

\* the decoder loadModel starts when decoder k has failed; 0 when none is left
NextDecoder(k) == IF k < Len(Decoders) THEN k + 1 ELSE 0

\* error instanceof Error ? error.message : '...'
ErrorMessage(err) == IF err.isError THEN err.message ELSE DefaultFailureMessage

\* as FrameProgress, but the fraction is subtracted
FrameProgressFalling(i, frameCount) == Rat(200 * frameCount - 7 * i, 10 * frameCount)

\* setProgress(20 + (progress * 0.7)) with progress = i / frameCount
FrameProgress(i, frameCount) == Rat(200 * frameCount + 7 * i, 10 * frameCount)

\* as StripWidth, but the canvas is sized for one frame
StripWidthOneFrame(dimensions, frames) == dimensions.width

\* stripCanvas.width = dimensions.width * frames.length
StripWidth(dimensions, frames) == dimensions.width * Len(frames)

\* as DrawImage, but the slots are laid out with the frame height as the stride
DrawImageAtHeightStride(frame, index, dimensions) ==
    [src |-> frame.index, x |-> index * dimensions.height, y |-> 0,
     w |-> dimensions.width, h |-> dimensions.height,
     scaled |-> frame.width # dimensions.width \/ frame.height # dimensions.height]

\* ctx.drawImage(img, index * dimensions.width, 0, dimensions.width, dimensions.height)
DrawImage(frame, index, dimensions) ==
    [src |-> frame.index, x |-> index * dimensions.width, y |-> 0,
     w |-> dimensions.width, h |-> dimensions.height,
     scaled |-> frame.width # dimensions.width \/ frame.height # dimensions.height]

\* what a draw leaves on a canvas: the new region, and of the earlier regions
\* those it does not touch
Paint(pixels, region) ==
    {q \in pixels : q.x + q.w <= region.x \/ region.x + region.w <= q.x} \cup {region}

\* stripCanvas.toDataURL('image/png'): the canvas, size and pixels
ToDataURL(canvas) ==
    [width |-> canvas.width, height |-> canvas.height, slots |-> canvas.pixels]

\* as AspectRatio, but every ratio gets the 16:9 camera
AspectRatioAlwaysWide(ratio) == Rat(16, 9)

\* const aspectRatio = ratio === '16:9' ? 16 / 9 : ... : 16 / 9
AspectRatio(ratio) ==
    CASE ratio = "16:9" -> Rat(16, 9)
      [] ratio = "4:3"  -> Rat(4, 3)
      [] ratio = "1:1"  -> Rat(1, 1)
      [] OTHER          -> Rat(16, 9)

\* as Rotation, but the turn of frame i is that of frame i + 1
RotationOneAhead(i, frameCount) == Rat((i + 1) * 360, frameCount)

\* const rotation = (i * (360 / frameCount) * Math.PI) / 180, in degrees
Rotation(i, frameCount) == Rat(i * 360, frameCount)

\* Vector3 arithmetic; NaN is contagious.  Each operand is bound to its value
\* before it is used, so that it is evaluated once.
VecAdd(a, b) ==
    CHOOSE sum \in {IF u.nan \/ v.nan THEN NaNVec
                                        ELSE Vec(u.x + v.x, u.y + v.y, u.z + v.z) :
                       u \in {a}, v \in {b}} : TRUE

VecSub(a, b) ==
    CHOOSE difference \in {IF u.nan \/ v.nan THEN NaNVec
                                               ELSE Vec(u.x - v.x, u.y - v.y, u.z - v.z) :
                              u \in {a}, v \in {b}} : TRUE

VecNegate(a) ==
    CHOOSE negated \in {IF u.nan THEN NaNVec ELSE Vec(0 - u.x, 0 - u.y, 0 - u.z) :
                           u \in {a}} : TRUE

Abs(n) == IF n < 0 THEN 0 - n ELSE n

\* Math.abs(c.x) > 0.001 || Math.abs(c.y) > 0.001 || Math.abs(c.z) > 0.001;
\* every comparison with NaN is false
OffCentre(c) ==
    \E u \in {c} :
        ~u.nan /\ (Abs(u.x) > Epsilon \/ Abs(u.y) > Epsilon \/ Abs(u.z) > Epsilon)

\* const scale = targetSize / effectiveSize: Infinity for a model without extent
ModelScale(geometry) == IF geometry.size = 0 THEN "Infinity" ELSE "fit"

\* const targetSize = 1.8 - (framePadding * 2), framePadding = 0.05
TargetSize == Rat(18000 - 2 * 500, 1)

\* Math.tan(fovRad / 2) for fov = 50 degrees, to three decimals
TanHalfFov == Rat(466, 1000)

\* the floor of the camera distance, 3.0
MinCameraDistance == Rat(30000, 1)

\* as CalculateModelTransform, but the model keeps its native scale
CalculateModelTransformUnscaled(geometry, aspectRatio) ==
    LET effectiveSize == Rat(geometry.size, 1)
        scale == Rat(1, 1)
        modelHeight == Product(effectiveSize, scale)
        halfTan == Product(Rat(2, 1), TanHalfFov)
        distanceForHeight == Quotient(modelHeight, halfTan)
        distanceForWidth == Quotient(modelHeight, Product(halfTan, aspectRatio))
        cameraDistance == Product(MathMax(distanceForHeight, distanceForWidth),
                                  Rat(11, 10))
    IN [scale |-> scale,
        position |-> VecNegate(geometry.raw),
        cameraDistance |-> MathMax(cameraDistance, MinCameraDistance)]

\* calculateModelTransform(model, aspectRatio).  The box of the model is its
\* geometry's: centre raw, and size the larger of its diagonal and its largest
\* dimension.
CalculateModelTransform(geometry, aspectRatio) ==
    LET effectiveSize == Rat(geometry.size, 1)
        scale == Quotient(TargetSize, effectiveSize)
        modelHeight == Product(effectiveSize, scale)
        halfTan == Product(Rat(2, 1), TanHalfFov)
        distanceForHeight == Quotient(modelHeight, halfTan)
        distanceForWidth == Quotient(modelHeight, Product(halfTan, aspectRatio))
        cameraDistance == Product(MathMax(distanceForHeight, distanceForWidth),
                                  Rat(11, 10))
    IN [scale |-> scale,
        position |-> VecNegate(geometry.raw),
        cameraDistance |-> MathMax(cameraDistance, MinCameraDistance)]

NoTransform == [scale |-> Rat(1, 1), position |-> Vec(0, 0, 0), cameraDistance |-> Rat(0, 1)]

\* new THREE.PerspectiveCamera(50, aspectRatio, 0.1, 1000);
\* camera.position.set(0, 0, cameraDistance); camera.lookAt(0, 0, 0)
Camera(aspectRatio, cameraDistance) ==
    [fov |-> Fov, aspect |-> aspectRatio,
     position |-> <<Rat(0, 1), Rat(0, 1), cameraDistance>>,
     lookAt |-> Vec(0, 0, 0)]

NoCamera == Camera(Rat(0, 1), Rat(0, 1))

\* the four lights added to the scene, with the default intensities (in tenths)
LightRig ==
    {[light |-> "ambient", intensity |-> 8, position |-> <<0, 0, 0>>],
     [light |-> "directional", intensity |-> 10, position |-> <<2, 2, 2>>],
     [light |-> "fill", intensity |-> 4, position |-> <<-1, 1, 1>>],
     [light |-> "rim", intensity |-> 3, position |-> <<0, -1, 2>>]}

\* new THREE.Box3().setFromObject(modelClone).getCenter(...): the centre of the
\* world-space box of the model as it is placed, scaled and turned
BoxCenter(geometry, position, scale, rotation) ==
    CASE scale = "Infinity" -> NaNVec
      [] scale = "one"      -> VecAdd(position, geometry.raw)
      [] OTHER              -> VecAdd(position, IF rotation = Rat(0, 1)
                                               THEN geometry.scaled
                                               ELSE geometry.turned)

\* lines 446-470: finalCenteredPosition, the position that centres the scaled model
CenteredPosition(geometry) ==
    LET scale == ModelScale(geometry)
        center == BoxCenter(geometry, Vec(0, 0, 0), "one", Rat(0, 1))
        placed == VecNegate(center)
        scaledCenter == BoxCenter(geometry, placed, scale, Rat(0, 1))
        moved == VecSub(placed, scaledCenter)
        finalCenter == BoxCenter(geometry, moved, scale, Rat(0, 1))
    IN IF OffCentre(finalCenter) THEN VecSub(moved, finalCenter) ELSE moved

\* lines 484-497: the position of the model when frame `rotation` is rendered
PosedPosition(geometry, centered, rotation) ==
    LET rotatedCenter == BoxCenter(geometry, centered, ModelScale(geometry), rotation)
    IN IF OffCentre(rotatedCenter) THEN VecSub(centered, rotatedCenter) ELSE centered

----------------------------------------------------------------------------
VARIABLES
    options,         \* the hook's options object
    isGenerating,    \* useState(false)
    progress,        \* useState(0)
    generatedData,   \* useState<SpriteStripData | null>(null)
    error,           \* useState<string | null>(null)
    appliedTexture,  \* useState<File | null>(null)
    selectedTexture, \* useState<File | null>(null)
    textureApplied,  \* useState<boolean>(false)
    run,             \* the invocations of generateSpriteStrip, by number
    objectUrls,      \* every URL.createObjectURL result -> times revoked
    active,          \* the run whose synchronous block is executing, or 0
    textures,        \* useState<File[]>([])
    texturePreviews, \* useState<Map<string, string>>: file name -> URL, 0 if absent
    previewUrls,     \* the preview URLs created, in order -> times revoked
    mounted,         \* the component using the hook is mounted
    legacyTexture,   \* the page's useState<File | null>(null), named texture there
    viewer           \* a SimpleSpriteStripViewer: its props and its state

vars == <<options, isGenerating, progress, generatedData, error, appliedTexture,
          selectedTexture, textureApplied, run, objectUrls, active,
          textures, texturePreviews, previewUrls, mounted, legacyTexture, viewer>>

hookState == <<isGenerating, progress, generatedData, error>>

previewState == <<textures, texturePreviews, previewUrls, mounted>>

textureState == <<appliedTexture, selectedTexture, textureApplied, previewState>>

NoPreviews == [name \in UploadFiles |-> 0]

\* SimpleSpriteStripViewer as first rendered: the props it reads, and
\* currentFrame 0, isPlaying = autoPlay, imageError and isHovering false.
\* pointer tells whether a pointer is over (or a finger on) the container.
Viewer(spriteStripUrl, frameCount, hover, autoPlay) ==
    [spriteStripUrl |-> spriteStripUrl, frameCount |-> frameCount, hover |-> hover,
     currentFrame |-> 0, isPlaying |-> autoPlay, imageError |-> FALSE,
     isHovering |-> FALSE, pointer |-> FALSE]

\* the page's placeholder viewer: spriteStripUrl="/assassin.png", defaults
NoViewer == Viewer("/assassin.png", DefaultFrameCount, TRUE, FALSE)

IdleRun ==
    [pc |-> "idle",
     modelFile |-> None, textureToUse |-> None,
     frameCount |-> 0, ratio |-> None, dimensions |-> [width |-> 0, height |-> 0],
     decoder |-> 0, started |-> <<>>, loadErrors |-> <<>>, logged |-> <<>>,
     material |-> "original", warned |-> FALSE,
     geometry |-> NoGeometry, scale |-> "one", aspect |-> Rat(0, 1),
     transform |-> NoTransform, camera |-> NoCamera, lights |-> {},
     centered |-> Vec(0, 0, 0), position |-> Vec(0, 0, 0), rotationY |-> Rat(0, 1),
     frameIndex |-> 0, frames |-> <<>>,
     strip |-> [width |-> 0, height |-> 0, pixels |-> {}],
     pendingImages |-> {}, loadedImages |-> 0, stripUrl |-> NoData,
     onGenerateCalls |-> 0, onSubmitCalls |-> 0,
     thrown |-> NoData, result |-> NoData]

Init ==
    /\ options \in [frameCount : FrameCountOptions, ratio : RatioOptions,
                    onGenerate : BOOLEAN, onSubmit : BOOLEAN, maxTextures : {0}]
    /\ isGenerating = FALSE
    /\ progress = Rat(0, 1)
    /\ generatedData = NoData
    /\ error = None
    /\ appliedTexture = None
    /\ selectedTexture = None
    /\ textureApplied = FALSE
    /\ textures = <<>>
    /\ texturePreviews = NoPreviews
    /\ previewUrls = <<>>
    /\ mounted = TRUE
    /\ legacyTexture = None
    /\ viewer = NoViewer
    /\ run = [r \in Runs |-> IdleRun]
    /\ objectUrls = [u \in {} |-> 0]
    /\ active = 0

----------------------------------------------------------------------------
(* Browser primitives *)

\* URL.createObjectURL: a fresh URL, not yet revoked
CreateObjectURL(urls, url) == url :> 0 @@ urls

\* URL.revokeObjectURL
RevokeObjectURL(urls, url) == [urls EXCEPT ![url] = @ + 1]

\* renderer.render(scene, camera); canvas.toDataURL('image/png'): the picture of
\* the scene as it stands, on a canvas of the given size
RenderFrame(i, dimensions, scene) ==
    [index |-> i, width |-> dimensions.width, height |-> dimensions.height,
     material |-> scene.material, rotation |-> scene.rotation,
     center |-> scene.center, aspect |-> scene.aspect,
     camera |-> scene.camera, lights |-> scene.lights]

\* a run is in flight from its call until its promise settles
InFlight(r) == run[r].pc \notin {"idle", "done", "failed"}

\* the first slot that holds no run in flight
FreeSlot == CHOOSE r \in Runs : ~InFlight(r) /\ \A q \in 1..(r - 1) : InFlight(q)

\* the URLs of the settled run that held slot r are out of the model's sight
ForgetUrls(urls, r) ==
    [u \in {v \in DOMAIN urls : v[2] # r} |-> urls[u]]

----------------------------------------------------------------------------
(* generateSpriteStrip, lines 49-136 *)

\* lines 49-62: the call, up to the creation of the model URL.  appliedTexture
\* is the value the useCallback closure holds, that of the render of the call.
GenerateSpriteStrip(modelFile, textureFile) ==
    /\ active = 0
    /\ \E r \in Runs : ~InFlight(r)
    /\ LET r == FreeSlot IN
       IF modelFile = None
       THEN UNCHANGED vars
       ELSE /\ isGenerating' = TRUE
            /\ progress' = Rat(0, 1)
            /\ error' = None
            /\ run' = [run EXCEPT ![r] =
                   [IdleRun EXCEPT !.pc = "started",
                                   !.modelFile = modelFile,
                                   !.textureToUse = TextureToUse(appliedTexture, textureFile),
                                   !.frameCount = ResolveFrameCount(options.frameCount),
                                   !.ratio = ResolveRatio(options.ratio),
                                   !.dimensions =
                                       GetCanvasDimensions(ResolveRatio(options.ratio))]]
            /\ objectUrls' = CreateObjectURL(ForgetUrls(objectUrls, r), <<"model", r>>)
            /\ active' = r
            /\ UNCHANGED <<options, legacyTexture, viewer, generatedData, textureState>>

\* as BeginLoad, but without the setProgress(10) of line 65
BeginLoadSilent(r) ==
    /\ active = r
    /\ run[r].pc = "started"
    /\ run' = [run EXCEPT ![r] = [@ EXCEPT !.pc = "loading", !.decoder = 1,
                                           !.started = <<1>>]]
    /\ active' = 0
    /\ UNCHANGED <<options, legacyTexture, viewer, hookState, textureState, objectUrls>>

\* lines 65-66 and 345-350: setProgress(10), loadModel starts the GLTF loader
BeginLoad(r) ==
    /\ active = r
    /\ run[r].pc = "started"
    /\ progress' = Rat(10, 1)
    /\ run' = [run EXCEPT ![r] = [@ EXCEPT !.pc = "loading", !.decoder = 1,
                                           !.started = <<1>>]]
    /\ active' = 0
    /\ UNCHANGED <<options, legacyTexture, viewer, isGenerating, generatedData, error, textureState, objectUrls>>

\* lines 351, 360, 369: the pending loader's onLoad resolves the promise
DecoderOnLoad(r) ==
    /\ active = 0
    /\ run[r].pc = "loading"
    /\ run' = [run EXCEPT ![r] = [@ EXCEPT !.pc = "loaded", !.loadErrors = <<>>,
                                           !.geometry = Parse(run[r].modelFile)]]
    /\ active' = r
    /\ UNCHANGED <<options, legacyTexture, viewer, hookState, textureState, objectUrls>>

\* lines 353-377: the pending loader's onError starts the next loader, or rejects
DecoderOnError(r, reason) ==
    /\ active = 0
    /\ run[r].pc = "loading"
    /\ LET errors == Append(run[r].loadErrors, reason)
           next == NextDecoder(run[r].decoder)
       IN IF next # 0
          THEN /\ run' = [run EXCEPT ![r] = [@ EXCEPT !.decoder = next,
                                                     !.started = Append(@, next),
                                                     !.loadErrors = errors]]
               /\ active' = 0
          ELSE /\ run' = [run EXCEPT ![r] =
                      [@ EXCEPT !.pc = "catch",
                                !.decoder = 0,
                                !.loadErrors = errors,
                                !.logged = errors,
                                !.thrown = [isError |-> TRUE,
                                            message |-> LoadFailedMessage,
                                            reasons |-> <<>>]]]
               /\ active' = r
    /\ UNCHANGED <<options, legacyTexture, viewer, hookState, textureState, objectUrls>>

\* lines 68-73 and 139-146: pick the texture; applyTextureToModel starts its load
AfterLoad(r) ==
    /\ active = r
    /\ run[r].pc = "loaded"
    /\ IF run[r].textureToUse # None
       THEN /\ run' = [run EXCEPT ![r] = [@ EXCEPT !.pc = "texturing"]]
            /\ objectUrls' = CreateObjectURL(objectUrls, <<"texture", r>>)
            /\ active' = 0
       ELSE /\ run' = [run EXCEPT ![r] = [@ EXCEPT !.pc = "transform"]]
            /\ UNCHANGED <<objectUrls, active>>
    /\ UNCHANGED <<options, legacyTexture, viewer, hookState, textureState>>

\* lines 147-171: the texture decoded; every mesh gets the new material
TextureOnLoad(r) ==
    /\ active = 0
    /\ run[r].pc = "texturing"
    /\ TextureDecodes(run[r].textureToUse)
    /\ run' = [run EXCEPT ![r] = [@ EXCEPT !.pc = "transform",
                                           !.material = run[r].textureToUse]]
    /\ objectUrls' = RevokeObjectURL(objectUrls, <<"texture", r>>)
    /\ active' = r
    /\ UNCHANGED <<options, legacyTexture, viewer, hookState, textureState>>

\* as TextureOnError, but the rejection reaches the catch of generateSpriteStrip
TextureOnErrorEscalates(r) ==
    /\ active = 0
    /\ run[r].pc = "texturing"
    /\ ~TextureDecodes(run[r].textureToUse)
    /\ run' = [run EXCEPT ![r] = [@ EXCEPT !.pc = "catch", !.warned = TRUE,
                                           !.thrown = [isError |-> TRUE,
                                                       message |-> TextureFailedMessage,
                                                       reasons |-> <<>>]]]
    /\ objectUrls' = RevokeObjectURL(objectUrls, <<"texture", r>>)
    /\ active' = r
    /\ UNCHANGED <<options, legacyTexture, viewer, hookState, textureState>>

\* as TextureOnError, but the error callback does not revoke the texture URL
TextureOnErrorLeaks(r) ==
    /\ active = 0
    /\ run[r].pc = "texturing"
    /\ ~TextureDecodes(run[r].textureToUse)
    /\ run' = [run EXCEPT ![r] = [@ EXCEPT !.pc = "transform", !.warned = TRUE]]
    /\ active' = r
    /\ UNCHANGED <<options, legacyTexture, viewer, hookState, textureState, objectUrls>>

\* lines 173-177 and 75-78: the texture failed; the rejection is caught and logged
TextureOnError(r) ==
    /\ active = 0
    /\ run[r].pc = "texturing"
    /\ ~TextureDecodes(run[r].textureToUse)
    /\ run' = [run EXCEPT ![r] = [@ EXCEPT !.pc = "transform", !.warned = TRUE]]
    /\ objectUrls' = RevokeObjectURL(objectUrls, <<"texture", r>>)
    /\ active' = r
    /\ UNCHANGED <<options, legacyTexture, viewer, hookState, textureState>>

\* lines 82-83 and 391-477: setProgress(20); generateFrames sets up canvas, scene,
\* camera and the model transform, and enters the frame loop
Transform(r) ==
    /\ active = r
    /\ run[r].pc = "transform"
    /\ progress' = Rat(20, 1)
    /\ run' = [run EXCEPT ![r] =
           [@ EXCEPT !.pc = IF 0 < run[r].frameCount THEN "render" ELSE "compose",
                     !.aspect = AspectRatio(run[r].ratio),
                     !.scale = ModelScale(run[r].geometry),
                     !.transform = CalculateModelTransform(run[r].geometry,
                                                           AspectRatio(run[r].ratio)),
                     !.camera =
                         Camera(AspectRatio(run[r].ratio),
                                CalculateModelTransform(
                                    run[r].geometry,
                                    AspectRatio(run[r].ratio)).cameraDistance),
                     !.lights = LightRig,
                     !.centered = CenteredPosition(run[r].geometry),
                     !.position = CenteredPosition(run[r].geometry),
                     !.frameIndex = 0,
                     !.frames = <<>>]]
    /\ UNCHANGED <<options, legacyTexture, viewer, isGenerating, generatedData, error, textureState,
                   objectUrls, active>>

\* as RenderStep, but the frame is captured before the model is turned
RenderStepCapturesFirst(r) ==
    /\ active = r
    /\ run[r].pc = "render"
    /\ LET i == run[r].frameIndex
           rotation == Rotation(i, run[r].frameCount)
           position == PosedPosition(run[r].geometry, run[r].centered, rotation)
           scene == [material |-> run[r].material,
                     rotation |-> run[r].rotationY,
                     center |-> BoxCenter(run[r].geometry, run[r].position, run[r].scale,
                                          run[r].rotationY),
                     aspect |-> run[r].aspect,
                     camera |-> run[r].camera,
                     lights |-> run[r].lights]
       IN
       /\ run' = [run EXCEPT ![r] =
              [@ EXCEPT !.pc = "sleep",
                        !.position = position,
                        !.rotationY = rotation,
                        !.frames = Append(@, RenderFrame(i, run[r].dimensions, scene))]]
       /\ progress' = FrameProgress(i, run[r].frameCount)
    /\ active' = 0
    /\ UNCHANGED <<options, legacyTexture, viewer, isGenerating, generatedData, error, textureState, objectUrls>>

\* as RenderStep, but without the reset of lines 484-485: each frame is turned
\* and moved from the pose the previous frame left
RenderStepCumulative(r) ==
    /\ active = r
    /\ run[r].pc = "render"
    /\ LET i == run[r].frameIndex
           step == Rotation(i, run[r].frameCount)
           rotation == Rat(run[r].rotationY[1] * step[2] + step[1] * run[r].rotationY[2],
                           run[r].rotationY[2] * step[2])
           position == PosedPosition(run[r].geometry, run[r].position, rotation)
           scene == [material |-> run[r].material,
                     rotation |-> rotation,
                     center |-> BoxCenter(run[r].geometry, position, run[r].scale,
                                          rotation),
                     aspect |-> run[r].aspect,
                     camera |-> run[r].camera,
                     lights |-> run[r].lights]
       IN
       /\ run' = [run EXCEPT ![r] =
              [@ EXCEPT !.pc = "sleep",
                        !.position = position,
                        !.rotationY = rotation,
                        !.frames = Append(@, RenderFrame(i, run[r].dimensions, scene))]]
       /\ progress' = FrameProgress(i, run[r].frameCount)
    /\ active' = 0
    /\ UNCHANGED <<options, legacyTexture, viewer, isGenerating, generatedData, error, textureState, objectUrls>>

\* as RenderStep, but every run renders the model of the first run
RenderStepSharedModel(r) ==
    /\ active = r
    /\ run[r].pc = "render"
    /\ LET i == run[r].frameIndex
           rotation == Rotation(i, run[r].frameCount)
           position == PosedPosition(run[1].geometry, run[1].centered, rotation)
           scene == [material |-> run[1].material,
                     rotation |-> rotation,
                     center |-> BoxCenter(run[1].geometry, position, run[1].scale,
                                          rotation),
                     aspect |-> run[r].aspect,
                     camera |-> run[r].camera,
                     lights |-> run[r].lights]
       IN
       /\ run' = [run EXCEPT ![r] =
              [@ EXCEPT !.pc = "sleep",
                        !.position = position,
                        !.rotationY = rotation,
                        !.frames = Append(@, RenderFrame(i, run[r].dimensions, scene))]]
       /\ progress' = FrameProgress(i, run[r].frameCount)
    /\ active' = 0
    /\ UNCHANGED <<options, legacyTexture, viewer, isGenerating, generatedData, error, textureState, objectUrls>>

\* lines 480-504: one pass of the frame loop, up to the await of the 50 ms timer
RenderStep(r) ==
    /\ active = r
    /\ run[r].pc = "render"
    /\ LET i == run[r].frameIndex
           rotation == Rotation(i, run[r].frameCount)
           position == PosedPosition(run[r].geometry, run[r].centered, rotation)
           scene == [material |-> run[r].material,
                     rotation |-> rotation,
                     center |-> BoxCenter(run[r].geometry, position, run[r].scale,
                                          rotation),
                     aspect |-> run[r].aspect,
                     camera |-> run[r].camera,
                     lights |-> run[r].lights]
       IN
       /\ run' = [run EXCEPT ![r] =
              [@ EXCEPT !.pc = "sleep",
                        !.position = position,
                        !.rotationY = rotation,
                        !.frames = Append(@, RenderFrame(i, run[r].dimensions, scene))]]
       /\ progress' = FrameProgress(i, run[r].frameCount)
    /\ active' = 0
    /\ UNCHANGED <<options, legacyTexture, viewer, isGenerating, generatedData, error, textureState, objectUrls>>

\* as TimerFires, but the camera is moved back for the next frame
TimerFiresDolliesCamera(r) ==
    /\ active = 0
    /\ run[r].pc = "sleep"
    /\ LET i == run[r].frameIndex + 1 IN
       run' = [run EXCEPT ![r] =
           [@ EXCEPT !.pc = IF i < run[r].frameCount THEN "render" ELSE "compose",
                     !.frameIndex = i,
                     !.camera = Camera(run[r].aspect,
                                       Product(run[r].camera.position[3],
                                               Rat(11, 10)))]]
    /\ active' = r
    /\ UNCHANGED <<options, legacyTexture, viewer, hookState, textureState, objectUrls>>

\* lines 504, 480, 507: the timer fires; next pass, or generateFrames returns
TimerFires(r) ==
    /\ active = 0
    /\ run[r].pc = "sleep"
    /\ LET i == run[r].frameIndex + 1 IN
       run' = [run EXCEPT ![r] =
           [@ EXCEPT !.pc = IF i < run[r].frameCount THEN "render" ELSE "compose",
                     !.frameIndex = i]]
    /\ active' = r
    /\ UNCHANGED <<options, legacyTexture, viewer, hookState, textureState, objectUrls>>

\* lines 88-89 and 511-534: setProgress(90); createSpriteStrip sizes the strip canvas
\* and sets the src of one Image per frame
BeginCompose(r) ==
    /\ active = r
    /\ run[r].pc = "compose"
    /\ progress' = Rat(90, 1)
    /\ run' = [run EXCEPT ![r] =
           [@ EXCEPT !.pc = "compositing",
                     !.strip = [width |-> StripWidth(run[r].dimensions, run[r].frames),
                                height |-> run[r].dimensions.height,
                                pixels |-> {}],
                     !.pendingImages = 1..Len(run[r].frames),
                     !.loadedImages = 0]]
    /\ active' = 0
    /\ UNCHANGED <<options, legacyTexture, viewer, isGenerating, generatedData, error, textureState, objectUrls>>

\* lines 524-531: the onload of the image of frames[k]; index is k - 1
ImageOnLoad(r, k) ==
    /\ active = 0
    /\ run[r].pc = "compositing"
    /\ k \in run[r].pendingImages
    /\ LET canvas == [run[r].strip EXCEPT
                         !.pixels = Paint(@, DrawImage(run[r].frames[k], k - 1,
                                                       run[r].dimensions))]
           loaded == run[r].loadedImages + 1
           resolved == loaded = Len(run[r].frames)
       IN /\ run' = [run EXCEPT ![r] =
                 [@ EXCEPT !.strip = canvas,
                           !.pendingImages = @ \ {k},
                           !.loadedImages = loaded,
                           !.stripUrl = IF resolved THEN ToDataURL(canvas) ELSE @,
                           !.pc = IF resolved THEN "finish" ELSE @]]
          /\ active' = IF resolved THEN r ELSE 0
    /\ UNCHANGED <<options, legacyTexture, viewer, hookState, textureState, objectUrls>>

\* lines 94-112: the artifact
SpriteStripData(r) ==
    [id |-> r,
     title |-> run[r].modelFile,
     spriteStripUrl |-> run[r].stripUrl,
     modelUrl |-> <<"model", r>>,
     frameCount |-> run[r].frameCount,
     ratio |-> run[r].ratio,
     metadata |-> [originalFileName |-> run[r].modelFile,
                   width |-> run[r].dimensions.width,
                   height |-> run[r].dimensions.height]]

\* as CatchAndFinally, but the error is not rethrown: the promise resolves
CatchSwallows(r) ==
    /\ active = r
    /\ run[r].pc = "catch"
    /\ error' = ErrorMessage(run[r].thrown)
    /\ generatedData' = NoData
    /\ isGenerating' = FALSE
    /\ run' = [run EXCEPT ![r] = [@ EXCEPT !.pc = "done"]]
    /\ active' = 0
    /\ UNCHANGED <<options, legacyTexture, viewer, progress, textureState, objectUrls>>

\* as CatchAndFinally, but without the setGeneratedData(null) of line 131
CatchKeepsArtifact(r) ==
    /\ active = r
    /\ run[r].pc = "catch"
    /\ error' = ErrorMessage(run[r].thrown)
    /\ isGenerating' = FALSE
    /\ run' = [run EXCEPT ![r] = [@ EXCEPT !.pc = "failed"]]
    /\ active' = 0
    /\ UNCHANGED <<options, legacyTexture, viewer, progress, generatedData, textureState, objectUrls>>

\* lines 127-135: catch and finally
CatchAndFinally(r) ==
    /\ active = r
    /\ run[r].pc = "catch"
    /\ error' = ErrorMessage(run[r].thrown)
    /\ generatedData' = NoData
    /\ isGenerating' = FALSE
    /\ run' = [run EXCEPT ![r] = [@ EXCEPT !.pc = "failed"]]
    /\ active' = 0
    /\ UNCHANGED <<options, legacyTexture, viewer, progress, textureState, objectUrls>>

\* lines 91-126: setProgress(100), the artifact, the callbacks
Finish(r) ==
    /\ active = r
    /\ run[r].pc = "finish"
    /\ progress' = Rat(100, 1)
    /\ \/ \* onGenerate absent or returning; no onSubmit: return, finally
          /\ ~options.onSubmit
          /\ generatedData' = SpriteStripData(r)
          /\ isGenerating' = FALSE
          /\ run' = [run EXCEPT ![r] =
                 [@ EXCEPT !.pc = "done",
                           !.onGenerateCalls = IF options.onGenerate THEN @ + 1 ELSE @,
                           !.result = SpriteStripData(r)]]
          /\ active' = 0
       \/ \* onGenerate absent or returning; onSubmit is called and awaited
          /\ options.onSubmit
          /\ generatedData' = SpriteStripData(r)
          /\ UNCHANGED isGenerating
          /\ run' = [run EXCEPT ![r] =
                 [@ EXCEPT !.pc = "submitting",
                           !.onGenerateCalls = IF options.onGenerate THEN @ + 1 ELSE @,
                           !.onSubmitCalls = @ + 1]]
          /\ active' = 0
       \/ \* onGenerate throws
          /\ options.onGenerate
          /\ \E err \in HookErrors :
                run' = [run EXCEPT ![r] =
                    [@ EXCEPT !.pc = "catch",
                              !.onGenerateCalls = @ + 1,
                              !.thrown = err]]
          /\ generatedData' = SpriteStripData(r)
          /\ UNCHANGED <<isGenerating, active>>
    /\ UNCHANGED <<options, legacyTexture, viewer, error, textureState, objectUrls>>

\* lines 123-126, 133-135: onSubmit resolved; return, finally
SubmitResolves(r) ==
    /\ active = 0
    /\ run[r].pc = "submitting"
    /\ isGenerating' = FALSE
    /\ run' = [run EXCEPT ![r] = [@ EXCEPT !.pc = "done", !.result = SpriteStripData(r)]]
    /\ UNCHANGED <<options, legacyTexture, viewer, progress, generatedData, error, textureState, objectUrls,
                   active>>

\* line 123: onSubmit rejected
SubmitRejects(r, err) ==
    /\ active = 0
    /\ run[r].pc = "submitting"
    /\ run' = [run EXCEPT ![r] = [@ EXCEPT !.pc = "catch", !.thrown = err]]
    /\ active' = r
    /\ UNCHANGED <<options, legacyTexture, viewer, hookState, textureState, objectUrls>>

----------------------------------------------------------------------------
(* The caller.  The generator page offers its submit button only while the  *)
(* hook reports that nothing is being generated.                            *)

SubmitWhenIdle(modelFile, textureFile) ==
    /\ ~isGenerating
    /\ GenerateSpriteStrip(modelFile, textureFile)

----------------------------------------------------------------------------
(* Texture selection, lines 270-279 *)

\* as SelectTexture, but textureApplied is left as it was
SelectTextureKeepsApplied(texture) ==
    /\ active = 0
    /\ selectedTexture' = texture
    /\ appliedTexture' = texture
    /\ UNCHANGED <<options, legacyTexture, viewer, hookState, run, objectUrls, active, previewState,
                   textureApplied>>

SelectTexture(texture) ==
    /\ active = 0
    /\ selectedTexture' = texture
    /\ appliedTexture' = texture
    /\ textureApplied' = FALSE
    /\ UNCHANGED <<options, legacyTexture, viewer, hookState, run, objectUrls, active, previewState>>

----------------------------------------------------------------------------
(* The sprite strip viewer, src/src/components/SpriteStripViewer.tsx *)

\* URLs a viewer is given
StripUrls == {"", "/assassin.png", "data:strip"}

\* widths of the container, and horizontal positions of the pointer relative
\* to its left edge: left of it, on it, and right of it
Widths == {4, 9}

Positions == -1..10

ViewerFrameCounts == (1..MaxFrameCount) \cup {DefaultFrameCount}

Floor(q) == q[1] \div q[2]

Min(a, b) == IF a < b THEN a ELSE b

Max(a, b) == IF a > b THEN a ELSE b

\* as HoverFrame, but without the upper clamp
HoverFrameUnclamped(x, width, frameCount) ==
    LET clampedX == Max(0, Min(x, width))
        percentage == Quotient(Rat(clampedX, 1), Rat(width, 1))
    IN Floor(Product(percentage, Rat(frameCount, 1)))

\* lines 82-91 and 108-118: the frame under the pointer
HoverFrame(x, width, frameCount) ==
    LET clampedX == Max(0, Min(x, width))
        percentage == Quotient(Rat(clampedX, 1), Rat(width, 1))
        frame == Floor(Product(percentage, Rat(frameCount, 1)))
    IN Max(0, Min(frame, frameCount - 1))

viewerUnchanged == <<options, isGenerating, progress, generatedData, error, appliedTexture,
                     selectedTexture, textureApplied, run, objectUrls, active,
                     textures, texturePreviews, previewUrls, mounted, legacyTexture>>

\* the parent renders the viewer with another URL; lines 40-45
UrlChanges(url) ==
    /\ url # viewer.spriteStripUrl
    /\ viewer' = IF url # ""
                 THEN [viewer EXCEPT !.spriteStripUrl = url, !.imageError = FALSE,
                                     !.currentFrame = 0]
                 ELSE [viewer EXCEPT !.spriteStripUrl = url]
    /\ UNCHANGED viewerUnchanged

\* lines 48-61: the interval of the animation loop fires
Tick ==
    /\ viewer.isPlaying
    /\ viewer' = [viewer EXCEPT !.currentFrame = (@ + 1) % viewer.frameCount]
    /\ UNCHANGED viewerUnchanged

\* lines 73-95; onButton: the pointer is over a button
HandleMouseMove(x, width, onButton) ==
    /\ viewer.pointer
    /\ viewer' = IF ~viewer.hover \/ ~viewer.isHovering \/ onButton
                 THEN viewer
                 ELSE [viewer EXCEPT !.currentFrame =
                                         HoverFrame(x, width, viewer.frameCount)]
    /\ UNCHANGED viewerUnchanged

\* lines 98-122
HandleTouchMove(x, width, onButton) ==
    /\ viewer.pointer
    /\ viewer' = IF ~viewer.hover \/ ~viewer.isHovering \/ onButton
                 THEN viewer
                 ELSE [viewer EXCEPT !.currentFrame =
                                         HoverFrame(x, width, viewer.frameCount)]
    /\ UNCHANGED viewerUnchanged

\* lines 124-134; the handleTouchMove it calls sees the isHovering of the
\* render the handler belongs to
HandleTouchStart(x, width, onButton) ==
    /\ viewer' =
          IF ~viewer.hover
          THEN [viewer EXCEPT !.pointer = TRUE]
          ELSE [viewer EXCEPT
                   !.pointer = TRUE,
                   !.isHovering = TRUE,
                   !.isPlaying = FALSE,
                   !.currentFrame = IF viewer.isHovering /\ ~onButton
                                    THEN HoverFrame(x, width, viewer.frameCount)
                                    ELSE @]
    /\ UNCHANGED viewerUnchanged

\* lines 136-142
HandleTouchEnd ==
    /\ viewer.pointer
    /\ viewer' = IF ~viewer.hover
                 THEN [viewer EXCEPT !.pointer = FALSE]
                 ELSE [viewer EXCEPT !.pointer = FALSE, !.isHovering = FALSE,
                                     !.currentFrame = 0]
    /\ UNCHANGED viewerUnchanged

\* lines 144-152
HandleMouseEnter ==
    /\ ~viewer.pointer
    /\ viewer' = IF ~viewer.hover
                 THEN [viewer EXCEPT !.pointer = TRUE]
                 ELSE [viewer EXCEPT !.pointer = TRUE, !.isHovering = TRUE,
                                     !.isPlaying = FALSE]
    /\ UNCHANGED viewerUnchanged

\* lines 154-160
HandleMouseLeave ==
    /\ viewer.pointer
    /\ viewer' = IF ~viewer.hover
                 THEN [viewer EXCEPT !.pointer = FALSE]
                 ELSE [viewer EXCEPT !.pointer = FALSE, !.isHovering = FALSE,
                                     !.currentFrame = 0]
    /\ UNCHANGED viewerUnchanged

\* lines 198-201
OnError ==
    /\ ~viewer.imageError
    /\ viewer' = [viewer EXCEPT !.imageError = TRUE]
    /\ UNCHANGED viewerUnchanged

InitViewer ==
    /\ options \in [frameCount : {1}, ratio : {None}, onGenerate : {FALSE},
                    onSubmit : {FALSE}, maxTextures : {0}]
    /\ isGenerating = FALSE
    /\ progress = Rat(0, 1)
    /\ generatedData = NoData
    /\ error = None
    /\ appliedTexture = None
    /\ selectedTexture = None
    /\ textureApplied = FALSE
    /\ textures = <<>>
    /\ texturePreviews = NoPreviews
    /\ previewUrls = <<>>
    /\ mounted = TRUE
    /\ legacyTexture = None
    /\ \E url \in StripUrls, frameCount \in ViewerFrameCounts, hover \in BOOLEAN,
          autoPlay \in BOOLEAN : viewer = Viewer(url, frameCount, hover, autoPlay)
    /\ run = [r \in Runs |-> IdleRun]
    /\ objectUrls = [u \in {} |-> 0]
    /\ active = 0

NextViewer ==
    \/ \E url \in StripUrls : UrlChanges(url)
    \/ Tick
    \/ \E x \in Positions, width \in Widths, onButton \in BOOLEAN :
          HandleMouseMove(x, width, onButton)
    \/ \E x \in Positions, width \in Widths, onButton \in BOOLEAN :
          HandleTouchMove(x, width, onButton)
    \/ \E x \in Positions, width \in Widths, onButton \in BOOLEAN :
          HandleTouchStart(x, width, onButton)
    \/ HandleTouchEnd
    \/ HandleMouseEnter
    \/ HandleMouseLeave
    \/ OnError

SpecViewer == InitViewer /\ [][NextViewer]_vars

----------------------------------------------------------------------------
(* The texture manager *)

DefaultMaxTextures == 10

\* options.maxTextures || 10
ResolveMaxTextures(m) == IF m = 0 THEN DefaultMaxTextures ELSE m

\* as Slice, but nothing is cut off
SliceWhole(array, end) == array

\* array.slice(0, end): a negative end counts from the end of the array
Slice(array, end) ==
    LET n == IF end < 0 THEN Len(array) + end ELSE end
    IN SubSeq(array, 1, IF n < 0 THEN 0 ELSE IF n > Len(array) THEN Len(array) ELSE n)

Accepted(file) == FileExtension(file) \in AcceptedFormats

\* lines 217-222: a preview URL for each new texture whose name has none
RECURSIVE NewPreviews(_, _, _)
NewPreviews(previews, urls, files) ==
    IF files = <<>>
    THEN [previews |-> previews, urls |-> urls]
    ELSE IF previews[Head(files)] = 0
         THEN NewPreviews([previews EXCEPT ![Head(files)] = Len(urls) + 1],
                          Append(urls, 0), Tail(files))
         ELSE NewPreviews(previews, urls, Tail(files))

\* URL.revokeObjectURL on every URL of a map
RevokeAll(urls, previews) ==
    [u \in DOMAIN urls |->
        IF \E name \in DOMAIN previews : previews[name] = u THEN urls[u] + 1 ELSE urls[u]]

\* lines 539-550: the cleanup of the effect, which React runs with the map the
\* effect was created for when the map is replaced, and at unmount
EffectCleanup(urls, previews) == RevokeAll(urls, previews)

\* lines 199-234
AddTextures(newTextures) ==
    /\ active = 0
    /\ mounted
    /\ LET maxTextures == ResolveMaxTextures(options.maxTextures)
           remainingSlots == maxTextures - Len(textures)
           validTextures == SelectSeq(Slice(newTextures, remainingSlots), Accepted)
           new == NewPreviews(texturePreviews, previewUrls, validTextures)
       IN
       IF Len(validTextures) > 0
       THEN /\ Len(new.urls) <= MaxPreviewUrls
            /\ textures' = textures \o validTextures
            /\ texturePreviews' = new.previews
            /\ previewUrls' = EffectCleanup(new.urls, texturePreviews)
            /\ IF selectedTexture = None
               THEN /\ selectedTexture' = validTextures[1]
                    /\ appliedTexture' = validTextures[1]
                    /\ textureApplied' = FALSE
               ELSE UNCHANGED <<selectedTexture, appliedTexture, textureApplied>>
            /\ UNCHANGED <<options, legacyTexture, viewer, hookState, run, objectUrls, active, mounted>>
       ELSE UNCHANGED vars

\* lines 236-255
RemoveTexture(textureName) ==
    /\ active = 0
    /\ mounted
    /\ textures' = SelectSeq(textures, LAMBDA texture : texture # textureName)
    /\ LET preview == texturePreviews[textureName] IN
       IF preview # 0
       THEN /\ texturePreviews' = [texturePreviews EXCEPT ![textureName] = 0]
            /\ previewUrls' =
                  EffectCleanup([previewUrls EXCEPT ![preview] = @ + 1],
                                texturePreviews)
       ELSE UNCHANGED <<texturePreviews, previewUrls>>
    /\ IF selectedTexture = textureName
       THEN /\ selectedTexture' = None
            /\ appliedTexture' = None
            /\ textureApplied' = FALSE
       ELSE UNCHANGED <<selectedTexture, appliedTexture, textureApplied>>
    /\ UNCHANGED <<options, legacyTexture, viewer, hookState, run, objectUrls, active, mounted>>

\* lines 257-268
ClearAllTextures ==
    /\ active = 0
    /\ mounted
    /\ previewUrls' = EffectCleanup(RevokeAll(previewUrls, texturePreviews),
                                    texturePreviews)
    /\ textures' = <<>>
    /\ selectedTexture' = None
    /\ appliedTexture' = None
    /\ textureApplied' = FALSE
    /\ texturePreviews' = NoPreviews
    /\ UNCHANGED <<options, legacyTexture, viewer, hookState, run, objectUrls, active, mounted>>

\* the component unmounts: React runs the cleanup of the last effect
Unmount ==
    /\ active = 0
    /\ mounted
    /\ mounted' = FALSE
    /\ previewUrls' = EffectCleanup(previewUrls, texturePreviews)
    /\ UNCHANGED <<options, legacyTexture, viewer, hookState, run, objectUrls, active, appliedTexture,
                   selectedTexture, textureApplied, textures, texturePreviews>>

\* lines 281-294 and 183-196: applySelectedTexture throws without a selection,
\* and otherwise applyTextureFromFile stores the selected file
ApplySelectedTexture ==
    /\ active = 0
    /\ mounted
    /\ IF selectedTexture = None
       THEN UNCHANGED vars
       ELSE /\ appliedTexture' = selectedTexture
            /\ textureApplied' = TRUE
            /\ UNCHANGED <<options, legacyTexture, viewer, hookState, run, objectUrls, active,
                           selectedTexture, previewState>>

\* lines 296-298
GetTexturePreview(textureName) == texturePreviews[textureName]

InitTextures ==
    /\ options \in [frameCount : {1}, ratio : {None}, onGenerate : {FALSE},
                    onSubmit : {FALSE}, maxTextures : 1..MaxTextures]
    /\ isGenerating = FALSE
    /\ progress = Rat(0, 1)
    /\ generatedData = NoData
    /\ error = None
    /\ appliedTexture = None
    /\ selectedTexture = None
    /\ textureApplied = FALSE
    /\ textures = <<>>
    /\ texturePreviews = NoPreviews
    /\ previewUrls = <<>>
    /\ mounted = TRUE
    /\ legacyTexture = None
    /\ viewer = NoViewer
    /\ run = [r \in Runs |-> IdleRun]
    /\ objectUrls = [u \in {} |-> 0]
    /\ active = 0

NextTextures ==
    \/ \E newTextures \in Uploads : AddTextures(newTextures)
    \/ \E textureName \in UploadFiles : RemoveTexture(textureName)
    \/ ClearAllTextures
    \/ \E t \in TextureFiles \cup {None} : mounted /\ SelectTexture(t)
    \/ ApplySelectedTexture
    \/ Unmount

SpecTextures == InitTextures /\ [][NextTextures]_vars

----------------------------------------------------------------------------
Next ==
    \/ \E m \in ModelFiles \cup {None}, t \in TextureFiles \cup {None} :
          SubmitWhenIdle(m, t)
    \/ \E r \in Runs : BeginLoad(r)
    \/ \E r \in Runs : DecoderOnLoad(r)
    \/ \E r \in Runs, reason \in DecoderErrors : DecoderOnError(r, reason)
    \/ \E r \in Runs : AfterLoad(r)
    \/ \E r \in Runs : TextureOnLoad(r)
    \/ \E r \in Runs : TextureOnError(r)
    \/ \E r \in Runs : Transform(r)
    \/ \E r \in Runs : RenderStep(r)
    \/ \E r \in Runs : TimerFires(r)
    \/ \E r \in Runs : BeginCompose(r)
    \/ \E r \in Runs, k \in 1..MaxFrameCount : ImageOnLoad(r, k)
    \/ \E r \in Runs : Finish(r)
    \/ \E r \in Runs : SubmitResolves(r)
    \/ \E r \in Runs, err \in HookErrors : SubmitRejects(r, err)
    \/ \E r \in Runs : CatchAndFinally(r)
    \/ \E t \in TextureFiles \cup {None} : SelectTexture(t)

Spec == Init /\ [][Next]_vars

\* the steps of run r that the browser takes on its own: job continuations,
\* loader callbacks, timers, image onloads, the settling of onSubmit
RunStep(r) ==
    \/ BeginLoad(r)
    \/ DecoderOnLoad(r)
    \/ \E reason \in DecoderErrors : DecoderOnError(r, reason)
    \/ AfterLoad(r)
    \/ TextureOnLoad(r)
    \/ TextureOnError(r)
    \/ Transform(r)
    \/ RenderStep(r)
    \/ TimerFires(r)
    \/ BeginCompose(r)
    \/ \E k \in 1..MaxFrameCount : ImageOnLoad(r, k)
    \/ Finish(r)
    \/ SubmitResolves(r)
    \/ \E err \in HookErrors : SubmitRejects(r, err)
    \/ CatchAndFinally(r)

\* the event loop never leaves a ready job, a fired timer or a loaded resource
\* undispatched for ever
FairSpec == Spec /\ \A r \in Runs : WF_vars(RunStep(r))

----------------------------------------------------------------------------
(* Strip geometry *)

\* the artifacts the caller can hold: the hook's state and the promises' values
Artifacts ==
    {a \in {generatedData} \cup {run[r].result : r \in Runs} : a # NoData}

\* the strip of run r is composed: createSpriteStrip has resolved
Composed(r) == run[r].stripUrl # NoData

\* C1: the strip of every artifact of a run with frameCount >= 1 is exactly
\* frameWidth x frameCount wide and frameHeight high, frameWidth and frameHeight
\* being the dimensions of the artifact's ratio and frameCount the recorded count.
C1_StripWidth ==
    \A a \in Artifacts :
        a.frameCount >= 1 =>
            /\ a.spriteStripUrl.width = a.metadata.width * a.frameCount
            /\ a.spriteStripUrl.height = a.metadata.height
            /\ [width |-> a.metadata.width, height |-> a.metadata.height]
                   = GetCanvasDimensions(a.ratio)

C1_Witness ==
    \E r \in Runs :
        /\ run[r].pc = "done"
        /\ run[r].result.frameCount = MaxFrameCount
        /\ run[r].result.spriteStripUrl.width = 1600 * MaxFrameCount

\* C2: whatever the order of the image onload callbacks, frame i is drawn at
\* offset i x frameWidth at frame size, no draw touches another frame's slot, every
\* draw fills a slot of its own, and the strip image exists only once every slot
\* has been drawn.
C2_SlotsInAnyOrder ==
    \A r \in Runs :
        LET pixels == run[r].strip.pixels
            w == run[r].dimensions.width
        IN /\ \A d \in pixels :
                 /\ d.x = d.src * w
                 /\ d.y = 0
                 /\ d.w = w
                 /\ d.h = run[r].dimensions.height
                 /\ d.src \in 0..(Len(run[r].frames) - 1)
                 /\ run[r].frames[d.src + 1].index = d.src
                 /\ d.x + d.w <= run[r].strip.width
           /\ \A d, e \in pixels : d # e => d.x + d.w <= e.x \/ e.x + e.w <= d.x
           /\ Cardinality(pixels) = run[r].loadedImages
           /\ Composed(r) =>
                 /\ {d.x : d \in pixels} = {i * w : i \in 0..(run[r].frameCount - 1)}
                 /\ run[r].stripUrl = ToDataURL(run[r].strip)
                 /\ run[r].pendingImages = {}

\* the last frame's image has loaded and is drawn, the first frame's has not
C2_Witness ==
    \E r \in Runs :
        /\ run[r].pc = "compositing"
        /\ Len(run[r].frames) = MaxFrameCount
        /\ \E d \in run[r].strip.pixels : d.src = MaxFrameCount - 1
        /\ \A d \in run[r].strip.pixels : d.src # 0

----------------------------------------------------------------------------
(* The compositor on its own.  createSpriteStrip(frames, dimensions) is     *)
(* entered with any sequence of decoded frame images, of the expected size  *)
(* or not; generateFrames itself only ever hands it frames of canvas size.  *)

\* the sizes a frame image handed to the compositor may have
FrameSizes(dimensions) ==
    {dimensions,
     [width |-> dimensions.width \div 2, height |-> dimensions.height],
     [width |-> dimensions.width, height |-> dimensions.height \div 2]}

FrameSequences(dimensions) ==
    UNION {[1..n -> FrameSizes(dimensions)] : n \in 1..MaxFrameCount}

InitCompose ==
    /\ options \in [frameCount : 1..MaxFrameCount, ratio : {"4:3", "1:1"},
                    onGenerate : {FALSE}, onSubmit : BOOLEAN, maxTextures : {0}]
    /\ isGenerating = TRUE
    /\ progress = FrameProgress(options.frameCount - 1, options.frameCount)
    /\ generatedData = NoData
    /\ error = None
    /\ appliedTexture = None
    /\ selectedTexture = None
    /\ textureApplied = FALSE
    /\ textures = <<>>
    /\ texturePreviews = NoPreviews
    /\ previewUrls = <<>>
    /\ mounted = TRUE
    /\ legacyTexture = None
    /\ viewer = NoViewer
    /\ \E sizes \in FrameSequences(GetCanvasDimensions(options.ratio)) :
          /\ Len(sizes) = options.frameCount
          /\ run = [r \in Runs |->
                IF r = 1
                THEN [IdleRun EXCEPT
                         !.pc = "compose",
                         !.modelFile = "model.bin",
                         !.frameCount = options.frameCount,
                         !.ratio = options.ratio,
                         !.dimensions = GetCanvasDimensions(options.ratio),
                         !.decoder = 1,
                         !.started = <<1>>,
                         !.frameIndex = options.frameCount,
                         !.geometry = Parse("model.bin"),
                         !.scale = ModelScale(Parse("model.bin")),
                         !.transform = CalculateModelTransform(
                                           Parse("model.bin"),
                                           AspectRatio(options.ratio)),
                         !.camera = Camera(AspectRatio(options.ratio), MinCameraDistance),
                         !.lights = LightRig,
                         !.aspect = AspectRatio(options.ratio),
                         !.frames = [i \in 1..Len(sizes) |->
                                        RenderFrame(i - 1, sizes[i],
                                            [material |-> "original",
                                             rotation |-> Rotation(i - 1, Len(sizes)),
                                             center |-> Vec(0, 0, 0),
                                             aspect |-> AspectRatio(options.ratio),
                                             camera |-> Camera(AspectRatio(options.ratio),
                                                               MinCameraDistance),
                                             lights |-> LightRig])]]
                ELSE IdleRun]
    /\ objectUrls = CreateObjectURL([u \in {} |-> 0], <<"model", 1>>)
    /\ active = 1

SpecCompose == InitCompose /\ [][Next]_vars

\* a frame of run r whose size is not the frame size
Mismatched(r) ==
    \E i \in DOMAIN run[r].frames :
        \/ run[r].frames[i].width # run[r].dimensions.width
        \/ run[r].frames[i].height # run[r].dimensions.height

\* C3: composition fails, and the run ends Failed without an artifact, whenever a
\* frame handed to the compositor is not frameWidth x frameHeight; such a frame is
\* never drawn scaled, and no strip is produced from it.
C3_MismatchRejected ==
    \A r \in Runs :
        Mismatched(r) =>
            /\ ~Composed(r)
            /\ run[r].pc # "done"
            /\ \A d \in run[r].strip.pixels : ~d.scaled
            /\ generatedData = NoData

----------------------------------------------------------------------------
(* Model loading *)

\* run r failed because no decoder could load the model
LoadFailed(r) ==
    /\ run[r].pc \in {"catch", "failed"}
    /\ Len(run[r].loadErrors) = Len(Decoders)

C4_State ==
    \A r \in Runs :
        /\ run[r].started = [k \in 1..Len(run[r].started) |-> k]
        /\ Len(run[r].started) <= Len(Decoders)
        /\ run[r].pc = "loading" =>
              /\ run[r].decoder = Len(run[r].started)
              /\ Len(run[r].loadErrors) = run[r].decoder - 1
        /\ LoadFailed(r) => Len(run[r].started) = Len(Decoders)

C4_Step ==
    \A r \in Runs :
        /\ run'[r].started # run[r].started =>
              \/ run'[r].pc = "started" /\ run'[r].started = <<>>
              \/ run[r].pc = "started" /\ run'[r].started = <<1>>
              \/ /\ run[r].pc = "loading"
                 /\ run'[r].pc = "loading"
                 /\ run'[r].started = Append(run[r].started, run[r].decoder + 1)
                 /\ Len(run'[r].loadErrors) = Len(run[r].loadErrors) + 1
        /\ run[r].pc = "loading" /\ run'[r].pc = "loaded" =>
              /\ run'[r].started = run[r].started
              /\ run'[r].decoder = run[r].decoder

\* C4: the decoders are started in the order GLTF, FBX, OBJ, each at most once;
\* decoder k+1 is started by the failure of decoder k and by nothing else; the
\* first success resolves the load and starts no further decoder.
C4_DecoderOrder == []C4_State /\ [][C4_Step]_vars

\* the FBX decoder loaded the model after the GLTF decoder had failed
C4_Witness ==
    \E r \in Runs :
        run[r].pc = "loaded" /\ run[r].started = <<1, 2>> /\ run[r].decoder = 2

\* C5: when all three decoders have failed, the error that rejects the load, and
\* with it generateSpriteStrip, carries the failure reason of each decoder.
C5_ErrorCarriesReasons ==
    \A r \in Runs :
        LoadFailed(r) =>
            /\ Len(run[r].thrown.reasons) = Len(Decoders)
            /\ run[r].thrown.reasons = run[r].loadErrors

\* C6: in a run in which no decoder succeeds no artifact is observable: when the
\* last decoder fails generatedData is null, it is null when the run has failed,
\* the run's error is set, and neither onGenerate nor onSubmit was called.
C6_NoArtifactWhenLoadFails ==
    /\ [](\A r \in Runs :
            LoadFailed(r) =>
                /\ run[r].onGenerateCalls = 0
                /\ run[r].onSubmitCalls = 0
                /\ run[r].result = NoData
                /\ run[r].pc = "failed" => generatedData = NoData /\ error # None)
    /\ [][\A r \in Runs :
            run[r].pc = "loading" /\ run'[r].pc = "catch" => generatedData = NoData]_vars

----------------------------------------------------------------------------
(* Texture application *)

\* the texture of run r failed to load
TextureFailed(r) == run[r].warned

C7_State ==
    \A r \in Runs :
        TextureFailed(r) =>
            /\ run[r].material = "original"
            /\ \A i \in DOMAIN run[r].frames : run[r].frames[i].material = "original"
            /\ run[r].pc \in {"catch", "failed"} =>
                  /\ run[r].thrown \in HookErrors
                  /\ run[r].thrown.message # TextureFailedMessage
            /\ run[r].pc = "done" => run[r].result # NoData /\ run[r].result.id = r

C7_Step ==
    \A r \in Runs :
        run[r].pc = "texturing" /\ run'[r].pc # "texturing" =>
            /\ run'[r].pc = "transform"
            /\ run'[r].thrown = NoData
            /\ ~TextureDecodes(run[r].textureToUse) =>
                  /\ run'[r] = [run[r] EXCEPT !.pc = "transform", !.warned = TRUE]
                  /\ hookState' = hookState

\* a run that renders at least one frame and has no callback to fail in
DoneWithoutTexture(r) ==
    run[r].frameCount >= 1 /\ ~options.onGenerate /\ ~options.onSubmit

C7_Live ==
    \A r \in Runs :
        (TextureFailed(r) /\ DoneWithoutTexture(r))
            ~> (TextureFailed(r) /\ run[r].pc = "done" /\ generatedData = run[r].result)

\* C7: a texture that fails to load never fails the run: the failure is absorbed
\* where it happens, the run goes on to the transform exactly as it stood, with
\* the model's original materials in every frame; if it fails later it fails
\* with the error of one of the callbacks, never with the texture's; and a run
\* that reaches Done without a texture reaches Done with its artifact after the
\* texture has failed.
C7_TextureFailureAbsorbed == []C7_State /\ [][C7_Step]_vars /\ C7_Live

\* a run whose texture failed to load is Done with its artifact
C7_Witness ==
    \E r \in Runs :
        /\ TextureFailed(r)
        /\ run[r].pc = "done"
        /\ generatedData = run[r].result
        /\ generatedData # NoData

\* applyTextureToModel was called in run r and its promise has settled
TextureSettled(r) ==
    run[r].pc \in {"transform", "render", "sleep", "compose", "compositing", "finish",
                   "submitting", "done"}

\* C8: the object URL applyTextureToModel creates is revoked exactly once, before
\* its promise settles, whether the texture loaded or not.
C8_TextureUrlRevokedOnce ==
    \A r \in Runs :
        LET url == <<"texture", r>> IN
        /\ run[r].textureToUse # None /\ TextureSettled(r) => url \in DOMAIN objectUrls
        /\ url \in DOMAIN objectUrls =>
              /\ run[r].textureToUse # None
              /\ objectUrls[url] = IF run[r].pc = "texturing" THEN 0 ELSE 1

\* the URL of a texture that failed to load has been revoked
C8_Witness ==
    \E r \in Runs :
        /\ TextureFailed(r)
        /\ run[r].pc = "transform"
        /\ objectUrls[<<"texture", r>>] = 1

----------------------------------------------------------------------------
(* Phases of a run *)

Phase(r) ==
    CASE run[r].pc = "idle" -> "Idle"
      [] run[r].pc \in {"started", "loading", "loaded"} -> "Loading"
      [] run[r].pc = "texturing" -> "TexturingBestEffort"
      [] run[r].pc = "transform" -> "Transforming"
      [] run[r].pc \in {"render", "sleep"} -> "Rendering"
      [] run[r].pc \in {"compose", "compositing", "finish", "submitting"} -> "Compositing"
      [] run[r].pc = "done" -> "Done"
      [] run[r].pc \in {"catch", "failed"} -> "Failed"

PhaseOrder ==
    {<<"Idle", "Loading">>,
     <<"Loading", "TexturingBestEffort">>, <<"Loading", "Transforming">>,
     <<"TexturingBestEffort", "Transforming">>,
     <<"Transforming", "Rendering">>, <<"Transforming", "Compositing">>,
     <<"Rendering", "Compositing">>,
     <<"Compositing", "Done">>,
     <<"Loading", "Failed">>, <<"Rendering", "Failed">>, <<"Compositing", "Failed">>}

\* a step of the call itself: a fresh run takes the place of a settled one
NewRun(r) == ~InFlight(r) /\ run'[r].pc = "started"

C9_State ==
    \A r \in Runs :
        /\ \A i \in DOMAIN run[r].frames : run[r].frames[i].index = i - 1
        /\ Phase(r) = "Rendering" =>
              /\ run[r].frameIndex \in 0..(run[r].frameCount - 1)
              /\ Len(run[r].frames) =
                     IF run[r].pc = "render" THEN run[r].frameIndex
                                              ELSE run[r].frameIndex + 1
        /\ Phase(r) \in {"Compositing", "Done"} => Len(run[r].frames) = run[r].frameIndex

C9_Step ==
    \A r \in Runs :
        LET from == Phase(r)
            to == Phase(r)'
        IN \/ NewRun(r)
           \/ /\ from = to
              /\ from = "Rendering" =>
                    /\ run'[r].frameIndex \in {run[r].frameIndex, run[r].frameIndex + 1}
                    /\ Len(run'[r].frames) \in {Len(run[r].frames), Len(run[r].frames) + 1}
              /\ run[r].pc \in {"done", "failed"} => run'[r] = run[r]
           \/ /\ from # to
              /\ <<from, to>> \in PhaseOrder
              /\ from # "Idle"
              /\ <<from, to>> = <<"Transforming", "Compositing">> => run[r].frameCount <= 0
              /\ <<from, to>> = <<"Rendering", "Compositing">> =>
                     run'[r].frameIndex = run[r].frameCount

\* C9: a run goes through Idle, Loading, (TexturingBestEffort), Transforming,
\* Rendering of frames 0..frameCount-1 in index order, Compositing, Done, in that
\* order; Failed is entered from Loading, Rendering or Compositing only; no phase
\* is entered twice and a run that is Done or Failed stays so.  The steps between
\* the strip's completion and the settling of the promise (lines 91-124) count
\* as Compositing; a frameCount below 1 leaves no frame to render.
C9_PhaseOrder == []C9_State /\ [][C9_Step]_vars

\* a run has gone through every phase, the optional one included
C9_Witness ==
    \E r \in Runs :
        /\ run[r].pc = "done"
        /\ run[r].textureToUse # None
        /\ Len(run[r].frames) = MaxFrameCount

----------------------------------------------------------------------------
(* Progress *)

\* C10 as stated: while loadModel is pending, and after it has failed, progress
\* is below 10.
C10_TenOnlyAfterLoad ==
    \A r \in Runs :
        run[r].pc = "loading" \/ LoadFailed(r) => RatLess(progress, Rat(10, 1))

C10_State ==
    \A r \in Runs :
        /\ run[r].pc = "started" => progress = Rat(0, 1)
        /\ run[r].pc \in {"loading", "loaded", "texturing"} \/ LoadFailed(r) =>
              progress = Rat(10, 1)

C10_Step ==
    \A r \in Runs :
        /\ run[r].pc = "started" /\ run'[r].pc = "loading" => progress' = Rat(10, 1)
        /\ run[r].pc = "loading" /\ run'[r] # run[r] => progress' = progress
        /\ run[r].pc = "catch" /\ LoadFailed(r) /\ run'[r] # run[r] => progress' = progress

\* C10, amended: 10 is surfaced by the step that starts the load, and no step of
\* the load changes it: progress is 0 before loadModel is called and exactly 10
\* while it is pending, when it has failed, and until rendering begins.  (The
\* runs of this specification do not overlap.)
C10_TenWhenLoadStarts == []C10_State /\ [][C10_Step]_vars

\* the last decoder has failed and the run is Failed
C10_Witness ==
    \E r \in Runs :
        LoadFailed(r) /\ run[r].pc = "failed" /\ progress = Rat(10, 1)

\* C11: while the frame loop waits after frame i, progress is
\* 20 + 70 x (i / frameCount).
C11_LinearTwentyToNinety ==
    \A r \in Runs :
        run[r].pc = "sleep" =>
            progress = Rat(20 * run[r].frameCount + 70 * run[r].frameIndex,
                           run[r].frameCount)

\* C12: no step taken while a run with frameCount >= 1 is in flight lowers
\* progress, the steps that settle the run included.
C12_ProgressNonDecreasing ==
    [][\A r \in Runs :
          InFlight(r) /\ run[r].frameCount >= 1 => RatLeq(progress, progress')]_vars

\* the last frame is rendered and progress has moved beyond 20
C12_Witness ==
    \E r \in Runs :
        /\ run[r].pc = "sleep"
        /\ run[r].frameIndex = MaxFrameCount - 1
        /\ RatLess(Rat(20, 1), progress)
        /\ RatLess(progress, Rat(90, 1))

\* C13: progress is 100 in a run that is Done and is not 100 in a run that has
\* failed, whether it failed while loading or in onGenerate or onSubmit.
C13_HundredIffDone ==
    \A r \in Runs :
        /\ run[r].pc = "done" => progress = Rat(100, 1)
        /\ run[r].pc \in {"catch", "failed"} => progress # Rat(100, 1)

----------------------------------------------------------------------------
(* The frame loop *)

\* C14: in a run with frameCount >= 1 the frame of index i was rendered with the
\* model turned by i x 360 / frameCount degrees: 0 for frame 0, more for each
\* later frame than for the one before it, and less than 360 for every frame.
C14_EvenRotation ==
    \A r \in Runs :
        \A k \in DOMAIN run[r].frames :
            LET angle == run[r].frames[k].rotation
                i == k - 1
            IN /\ run[r].frameCount >= 1
               /\ angle[1] * run[r].frameCount = i * 360 * angle[2]
               /\ i = 0 => angle = <<0, 1>>
               /\ i > 0 => RatLess(run[r].frames[k - 1].rotation, angle)
               /\ RatLess(angle, <<360, 1>>)
               /\ ~RatLess(angle, <<0, 1>>)

\* every frame of the longest sequence is rendered, the last one at
\* 360 - 360 / frameCount degrees
C14_Witness ==
    \E r \in Runs :
        /\ run[r].pc = "compose"
        /\ Len(run[r].frames) = MaxFrameCount
        /\ run[r].frames[MaxFrameCount].rotation[1] * MaxFrameCount
               = (360 * MaxFrameCount - 360) * run[r].frames[MaxFrameCount].rotation[2]

\* C15: the frame sequence handed to the compositor, and that of every strip, has
\* exactly frameCount frames and at least one; a run whose frameCount is below 1
\* gets no further than that.
C15_ExactlyFrameCount ==
    \A r \in Runs :
        run[r].pc \in {"compose", "compositing", "finish", "submitting", "done"} =>
            /\ Len(run[r].frames) = run[r].frameCount
            /\ Len(run[r].frames) >= 1

C16_State ==
    \A r \in Runs :
        /\ \A k \in DOMAIN run[r].frames :
              /\ run[r].frames[k].index = k - 1
              /\ run[r].frames[k].rotation = Rotation(k - 1, run[r].frameCount)
        /\ run[r].pc = "render" =>
              /\ Len(run[r].frames) = run[r].frameIndex
              /\ run[r].frameIndex > 0 =>
                    run[r].rotationY = run[r].frames[run[r].frameIndex].rotation
        /\ run[r].pc = "sleep" =>
              /\ Len(run[r].frames) = run[r].frameIndex + 1
              /\ run[r].rotationY = Rotation(run[r].frameIndex, run[r].frameCount)
              /\ run[r].frames[Len(run[r].frames)].rotation = run[r].rotationY

C16_Step ==
    \A r \in Runs :
        /\ run'[r].frames # run[r].frames =>
              \/ NewRun(r)
              \/ /\ run[r].pc = "render"
                 /\ Len(run'[r].frames) = Len(run[r].frames) + 1
                 /\ SubSeq(run'[r].frames, 1, Len(run[r].frames)) = run[r].frames
                 /\ run'[r].frames[Len(run'[r].frames)].index = run[r].frameIndex
                 /\ run'[r].frames[Len(run'[r].frames)].rotation = run'[r].rotationY
        /\ run'[r].rotationY # run[r].rotationY \/ run'[r].position # run[r].position =>
              \/ NewRun(r)
              \/ run[r].pc = "transform" /\ run[r].frames = <<>>
              \/ run[r].pc = "render" /\ Len(run'[r].frames) = Len(run[r].frames) + 1
        /\ run'[r].frameIndex # run[r].frameIndex =>
              \/ NewRun(r)
              \/ /\ run[r].pc = "sleep"
                 /\ run'[r].frameIndex = run[r].frameIndex + 1
                 /\ run'[r].frames = run[r].frames

\* C16: frames are rendered one at a time in index order: the model is turned
\* for frame i, and frame i captured and appended, in one step; nothing touches
\* the model or the frames across the wait that follows; the index moves on by
\* one only after the wait; so frames[i] is the picture of rotation index i.
C16_FramesInIndexOrder == []C16_State /\ [][C16_Step]_vars

\* the run waits after its second frame, the model still turned for it
C16_Witness ==
    \E r \in Runs :
        /\ run[r].pc = "sleep"
        /\ run[r].frameIndex = 1
        /\ Len(run[r].frames) = 2
        /\ run[r].rotationY = run[r].frames[2].rotation
        /\ run[r].rotationY # run[r].frames[1].rotation

----------------------------------------------------------------------------
(* The frame loop on its own.  generateFrames is entered with the model a   *)
(* loader resolved with, of any geometry.                                   *)

InitRender ==
    /\ options \in [frameCount : 1..MaxFrameCount, ratio : RatioOptions,
                    onGenerate : {FALSE}, onSubmit : BOOLEAN, maxTextures : {0}]
    /\ isGenerating = TRUE
    /\ progress = Rat(10, 1)
    /\ generatedData = NoData
    /\ error = None
    /\ appliedTexture = None
    /\ selectedTexture = None
    /\ textureApplied = FALSE
    /\ textures = <<>>
    /\ texturePreviews = NoPreviews
    /\ previewUrls = <<>>
    /\ mounted = TRUE
    /\ legacyTexture = None
    /\ viewer = NoViewer
    /\ \E geometry \in Geometries :
          run = [r \in Runs |->
                IF r = 1
                THEN [IdleRun EXCEPT
                         !.pc = "transform",
                         !.modelFile = "model.bin",
                         !.frameCount = options.frameCount,
                         !.ratio = ResolveRatio(options.ratio),
                         !.dimensions = GetCanvasDimensions(ResolveRatio(options.ratio)),
                         !.decoder = 1,
                         !.started = <<1>>,
                         !.geometry = geometry]
                ELSE IdleRun]
    /\ objectUrls = CreateObjectURL([u \in {} |-> 0], <<"model", 1>>)
    /\ active = 1

SpecRender == InitRender /\ [][Next]_vars

\* every component of a vector is a number within the tolerance of 0
WithinEpsilon(c) ==
    ~c.nan /\ Abs(c.x) <= Epsilon /\ Abs(c.y) <= Epsilon /\ Abs(c.z) <= Epsilon

\* C17: whatever the model, every frame was rendered with the centre of the
\* model's world-space bounding box within 0.001 of the origin on every axis.
C17_CenteredAtRender ==
    \A r \in Runs :
        \A k \in DOMAIN run[r].frames : WithinEpsilon(run[r].frames[k].center)

----------------------------------------------------------------------------
(* Frame dimensions *)

\* C18: for every ratio option the dimensions of a run are those of the table
\* (16:9 1920x1080, 4:3 1600x1200, 1:1 1080x1080, auto and absent 1920x1080);
\* every frame is rendered on a canvas of that size by a camera of aspect
\* width / height, every strip slot has that size, and the metadata of every
\* artifact reports it.
C18_RatioTable ==
    LET w == CASE options.ratio = "4:3" -> 1600
               [] options.ratio = "1:1" -> 1080
               [] OTHER -> 1920
        h == CASE options.ratio = "4:3" -> 1200
               [] OTHER -> 1080
    IN /\ options.ratio \in {None, "16:9", "4:3", "1:1", "auto"}
       /\ \A r \in Runs :
             /\ run[r].pc # "idle" =>
                   run[r].dimensions.width = w /\ run[r].dimensions.height = h
             /\ run[r].pc \in {"render", "sleep", "compose"} =>
                   run[r].aspect[1] * h = w * run[r].aspect[2]
             /\ \A k \in DOMAIN run[r].frames :
                   /\ run[r].frames[k].width = w
                   /\ run[r].frames[k].height = h
                   /\ run[r].frames[k].aspect[1] * h = w * run[r].frames[k].aspect[2]
             /\ \A d \in run[r].strip.pixels : d.w = w /\ d.h = h /\ ~d.scaled
       /\ \A a \in Artifacts :
             /\ a.metadata.width = w
             /\ a.metadata.height = h
             /\ a.spriteStripUrl.height = h

\* a run with ratio 4:3 has delivered its artifact
C18_Witness ==
    \E r \in Runs :
        /\ options.ratio = "4:3"
        /\ run[r].pc = "done"
        /\ run[r].result.metadata.width = 1600
        /\ run[r].result.metadata.height = 1200
        /\ run[r].frames[1].aspect = <<4, 3>>

----------------------------------------------------------------------------
(* Outcomes *)

\* C19: a run that is Done has returned its artifact and left it in
\* generatedData with no error; a run that has Failed has an error, has left
\* generatedData null, returned nothing and handed no artifact to onGenerate.
C19_NoArtifactOnFailure ==
    \A r \in Runs :
        /\ run[r].pc = "done" =>
              /\ run[r].result # NoData
              /\ generatedData = run[r].result
              /\ error = None
        /\ run[r].pc = "failed" =>
              /\ error # None
              /\ generatedData = NoData
              /\ run[r].result = NoData
              /\ run[r].onGenerateCalls = 0

C20_State ==
    \A r \in Runs :
        /\ run[r].onSubmitCalls <= 1
        /\ run[r].onSubmitCalls = 1 =>
              /\ options.onSubmit
              /\ Composed(r)
              /\ Cardinality(run[r].strip.pixels) = run[r].frameCount
        /\ run[r].pc = "submitting" =>
              /\ run[r].onSubmitCalls = 1
              /\ InFlight(r)
              /\ isGenerating
              /\ run[r].result = NoData
        /\ run[r].pc = "done" /\ options.onSubmit => run[r].onSubmitCalls = 1
        /\ run[r].pc = "failed" /\ run[r].onSubmitCalls = 1 =>
              /\ run[r].thrown \in HookErrors
              /\ error = ErrorMessage(run[r].thrown)
              /\ generatedData = NoData
              /\ run[r].result = NoData

C20_Step ==
    \A r \in Runs :
        /\ run'[r].onSubmitCalls # run[r].onSubmitCalls =>
              \/ NewRun(r)
              \/ /\ run[r].pc = "finish"
                 /\ run'[r].pc = "submitting"
                 /\ run'[r].onSubmitCalls = run[r].onSubmitCalls + 1
        /\ run[r].pc = "submitting" /\ run'[r].pc # "submitting" =>
              \/ run'[r].pc = "done" /\ run'[r].result # NoData
              \/ run'[r].pc = "catch" /\ run'[r].thrown \in HookErrors
        /\ run[r].pc = "catch" /\ run[r].onSubmitCalls = 1 /\ run'[r] # run[r] =>
              /\ run'[r].pc = "failed"
              /\ run'[r].onSubmitCalls = 1
              /\ error' = ErrorMessage(run[r].thrown)
              /\ generatedData' = NoData
              /\ ~isGenerating'

\* C20: onSubmit is called at most once in a run, only with the strip composed
\* of all its frames, and the run stays in flight until it settles; when it
\* rejects, the run fails with the rejection's error, generatedData is null,
\* nothing is returned and onSubmit is not called again.
C20_SubmitAwaitedOnce == []C20_State /\ [][C20_Step]_vars

\* onSubmit rejected and the run has failed
C20_Witness ==
    \E r \in Runs :
        /\ run[r].pc = "failed"
        /\ run[r].onSubmitCalls = 1
        /\ run[r].thrown \in HookErrors
        /\ generatedData = NoData
        /\ error # None

----------------------------------------------------------------------------
(* Fresh runs *)

\* C21: a run starts with progress 0 and error null, and from its first state
\* until its own artifact is stored generatedData is null: the artifact of an
\* earlier run is not observable during a later one.
C21_FreshRun ==
    \A r \in Runs :
        /\ run[r].pc = "started" => progress = Rat(0, 1) /\ error = None
        /\ run[r].pc \in {"started", "loading", "loaded", "texturing", "transform",
                          "render", "sleep", "compose", "compositing", "finish"} =>
              generatedData = NoData

----------------------------------------------------------------------------
(* Overlapping runs.  generateSpriteStrip is an ordinary function of the     *)
(* hook: a caller that does not wait for isGenerating can call it while an   *)
(* earlier invocation is still in flight.  The claims on overlap are about   *)
(* pairs of runs: a run is started next to at most one other.                *)

\* the runs in flight
Overlapping == {r \in Runs : InFlight(r)}

StartAlongside(modelFile, textureFile) ==
    /\ Cardinality(Overlapping) <= 1
    /\ GenerateSpriteStrip(modelFile, textureFile)

InitOverlap ==
    /\ Init
    /\ options.frameCount = 2
    /\ options.ratio = "4:3"
    /\ ~options.onGenerate

NextOverlap ==
    \/ \E t \in TextureFiles \cup {None} : StartAlongside("model.bin", t)
    \/ \E r \in Runs : RunStep(r)

SpecOverlap == InitOverlap /\ [][NextOverlap]_vars

\* the material run r renders with when nothing interferes: its texture, if it
\* has one that decodes
OwnMaterial(r) ==
    IF run[r].textureToUse # None /\ TextureDecodes(run[r].textureToUse)
    THEN run[r].textureToUse
    ELSE "original"

\* frame i of run r as generateFrames renders it when run r is the only run:
\* from the run's own file, texture, ratio and frame count
OwnFrame(r, i) ==
    LET geometry == Parse(run[r].modelFile)
        rotation == Rotation(i, run[r].frameCount)
        position == PosedPosition(geometry, CenteredPosition(geometry), rotation)
    IN RenderFrame(i, GetCanvasDimensions(run[r].ratio),
                   [material |-> OwnMaterial(r),
                    rotation |-> rotation,
                    center |-> BoxCenter(geometry, position, ModelScale(geometry),
                                         rotation),
                    aspect |-> AspectRatio(run[r].ratio),
                    camera |-> Camera(AspectRatio(run[r].ratio),
                                      CalculateModelTransform(
                                          geometry,
                                          AspectRatio(run[r].ratio)).cameraDistance),
                    lights |-> LightRig])

\* the strip createSpriteStrip composes of those frames
OwnStrip(r) ==
    LET dimensions == GetCanvasDimensions(run[r].ratio) IN
    [width |-> dimensions.width * run[r].frameCount,
     height |-> dimensions.height,
     slots |-> {DrawImage(OwnFrame(r, i), i, dimensions) :
                   i \in 0..(run[r].frameCount - 1)}]

C22_State ==
    \A r \in Runs :
        /\ \A k \in DOMAIN run[r].frames : run[r].frames[k] = OwnFrame(r, k - 1)
        /\ Composed(r) => run[r].stripUrl = OwnStrip(r)
        /\ run[r].pc = "done" => run[r].result.spriteStripUrl = OwnStrip(r)

C22_Step ==
    \A r \in Runs :
        \A q \in Runs \ {r} : run'[r] = run[r] \/ run'[q] = run[q]

\* C22: whatever another run does in between, every frame of a run is the
\* frame the run renders on its own (its own model, material, rotation, canvas
\* size and camera), its strip is the strip composed of those frames, and no
\* step changes the rendering state of two runs.
C22_RunsShareNothing == []C22_State /\ [][C22_Step]_vars

\* two runs are in the frame loop at once, one textured and one not
C22_Witness ==
    \E r \in Runs :
        \E q \in Runs \ {r} :
            /\ run[r].pc = "sleep"
            /\ run[q].pc = "sleep"
            /\ run[r].frames[1].material = "original"
            /\ run[q].frames[1].material = "good.png"

----------------------------------------------------------------------------
(* Independent frames *)

\* the pose of a model of the given geometry at the render of frame i of
\* frameCount: a function of i and of the initial transform only
PoseOfFrame(geometry, i, frameCount) ==
    [rotation |-> Rotation(i, frameCount),
     position |-> PosedPosition(geometry, CenteredPosition(geometry),
                                Rotation(i, frameCount))]

C23_State ==
    \A r \in Runs :
        /\ run[r].pc \in {"render", "sleep"} =>
              run[r].centered = CenteredPosition(run[r].geometry)
        /\ run[r].pc = "sleep" =>
              LET pose == PoseOfFrame(run[r].geometry, run[r].frameIndex,
                                      run[r].frameCount)
              IN /\ run[r].rotationY = pose.rotation
                 /\ run[r].position = pose.position
        /\ \A k \in DOMAIN run[r].frames :
              LET pose == PoseOfFrame(run[r].geometry, k - 1, run[r].frameCount)
              IN /\ run[r].frames[k].rotation = pose.rotation
                 /\ run[r].frames[k].center =
                       BoxCenter(run[r].geometry, pose.position,
                                 ModelScale(run[r].geometry), pose.rotation)

C23_Step ==
    \A r \in Runs :
        run[r].pc \in {"render", "sleep"} /\ run'[r].pc \in {"render", "sleep"} =>
            run'[r].centered = run[r].centered

\* C23: at the render of frame i the model's rotation is rotation i alone and
\* its position is the stored centered position plus the correction for that
\* rotation: both are functions of i and of the initial transform, whatever
\* rotation and correction the earlier frames applied; the frame loop never
\* changes the stored centered position.
C23_FramesIndependent == []C23_State /\ [][C23_Step]_vars

\* the third frame has been rendered with a correction of its own, after a
\* second frame turned by another angle
C23_Witness ==
    \E r \in Runs :
        /\ run[r].pc = "sleep"
        /\ run[r].frameIndex = 2
        /\ run[r].position # run[r].centered
        /\ run[r].frames[2].rotation # Rat(0, 1)
        /\ run[r].frames[2].rotation # run[r].rotationY

----------------------------------------------------------------------------
(* Camera and lights *)

\* the frame loop: from the first render to the return of generateFrames
InFrameLoop(r) == run[r].pc \in {"render", "sleep"}

C24_State ==
    \A r \in Runs :
        /\ InFrameLoop(r) =>
              /\ run[r].camera =
                    Camera(AspectRatio(run[r].ratio), run[r].transform.cameraDistance)
              /\ run[r].lights = LightRig
        /\ \A k \in DOMAIN run[r].frames :
              /\ run[r].frames[k].camera = run[r].camera
              /\ run[r].frames[k].lights = LightRig
              /\ run[r].frames[k].camera.position =
                    run[r].frames[1].camera.position

C24_Step ==
    \A r \in Runs :
        InFrameLoop(r) /\ InFrameLoop(r)' =>
            run'[r].camera = run[r].camera /\ run'[r].lights = run[r].lights

\* C24: in the frame loop the camera is the one set up before it (field of
\* view 50, the aspect of the ratio, on the z axis at the computed distance,
\* looking at the origin) and the lights are the four of the rig; no step of
\* the loop changes either, and every frame of a run was rendered with the
\* same camera, at the same distance, and the same lights.
C24_RigUnchanged == []C24_State /\ [][C24_Step]_vars

\* three frames have been rendered
C24_Witness ==
    \E r \in Runs :
        /\ run[r].pc = "sleep"
        /\ Len(run[r].frames) = 3
        /\ run[r].frames[3].camera.position[3] = MinCameraDistance
        /\ Cardinality(run[r].frames[3].lights) = 4

----------------------------------------------------------------------------
(* Camera distance *)

\* C25: whatever the model and the aspect ratio, the camera distance that
\* calculateModelTransform returned, and at which the camera stands in the
\* frame loop, is at least 3.0.
C25_DistanceAtLeastThree ==
    \A r \in Runs :
        InFrameLoop(r) =>
            /\ AtLeast(run[r].transform.cameraDistance, MinCameraDistance)
            /\ AtLeast(run[r].camera.position[3], MinCameraDistance)

----------------------------------------------------------------------------
(* Framing independent of native scale and pivot *)

\* uniform scaling factors n / d
Scalings == {<<2, 1>>, <<1, 2>>, <<10, 1>>}

\* displacements of the pivot along the vertical axis
Lifts == {0, 400, -2000}

\* the model scaled by k about its origin: the box grows with it, and the box
\* of the model once scaled to fit is the same
Rescaled(geometry, k) ==
    [geometry EXCEPT !.size = (@ * k[1]) \div k[2],
                     !.raw = Vec((@.x * k[1]) \div k[2], (@.y * k[1]) \div k[2],
                                 (@.z * k[1]) \div k[2])]

\* the model with its vertices moved up by dy: the centre of every box of it
\* moves by dy, scaled with the model where the model is scaled to fit
Lifted(geometry, dy) ==
    LET fitted == (dy * TargetSize[1]) \div geometry.size IN
    [geometry EXCEPT !.raw = VecAdd(@, Vec(0, dy, 0)),
                     !.scaled = VecAdd(@, Vec(0, fitted, 0)),
                     !.turned = VecAdd(@, Vec(0, fitted, 0))]

\* the relations of the claim for one model and ratio
Framed(geometry, transform) ==
    /\ Product(transform.scale, Rat(geometry.size, 1)) = TargetSize
    /\ transform.position = VecNegate(geometry.raw)

\* C26: for every model whose box has extent, the transform computed for it,
\* and for it scaled by any factor and moved by any displacement, has
\* scale x effectiveSize = targetSize and translation = -center, and the
\* camera distance is that of the original model.
C26_FramingIndependent ==
    \A r \in Runs :
        InFrameLoop(r) /\ run[r].geometry.size > 0 =>
            /\ Framed(run[r].geometry, run[r].transform)
            /\ \A k \in Scalings :
                  \A dy \in Lifts :
                     LET variant == Lifted(Rescaled(run[r].geometry, k), dy)
                         transform == CalculateModelTransform(variant, run[r].aspect)
                     IN /\ Framed(variant, transform)
                        /\ transform.cameraDistance = run[r].transform.cameraDistance

\* the transform of an off-centre model was computed for a square frame
C26_Witness ==
    \E r \in Runs :
        /\ InFrameLoop(r)
        /\ run[r].geometry = OffCentreModel
        /\ run[r].aspect = Rat(1, 1)
        /\ run[r].transform.scale = Rat(17, 40)
        /\ run[r].transform.position = Vec(-30000, -10000, 20000)

----------------------------------------------------------------------------
(* Preview URLs *)

\* C27: no preview URL has been revoked twice, no URL stored in texturePreviews
\* (what getTexturePreview returns) has been revoked, and once the component
\* is unmounted every URL created has been revoked exactly once.
C27_PreviewUrlsReleasedOnce ==
    /\ \A u \in DOMAIN previewUrls : previewUrls[u] <= 1
    /\ \A name \in UploadFiles :
          GetTexturePreview(name) # 0 /\ mounted =>
              previewUrls[GetTexturePreview(name)] = 0
    /\ ~mounted => \A u \in DOMAIN previewUrls : previewUrls[u] = 1

----------------------------------------------------------------------------
(* The texture of a run *)

C28_State ==
    \A r \in Runs :
        /\ run[r].pc = "texturing" => run[r].textureToUse # None
        /\ run[r].textureToUse = None =>
              /\ run[r].material = "original"
              /\ ~run[r].warned
              /\ <<"texture", r>> \notin DOMAIN objectUrls
        /\ run[r].material \in {"original", run[r].textureToUse}

C28_Step ==
    \A r \in Runs :
        /\ \A t \in TextureFiles \cup {None} :
              NewRun(r) /\ SubmitWhenIdle("model.bin", t) =>
                  run'[r].textureToUse = IF appliedTexture # None THEN appliedTexture
                                                                 ELSE t
        /\ InFlight(r) /\ InFlight(r)' => run'[r].textureToUse = run[r].textureToUse
        /\ run[r].pc = "loaded" /\ run'[r].pc # "loaded" =>
              run'[r].pc = IF run[r].textureToUse = None THEN "transform"
                                                         ELSE "texturing"

\* C28: the texture of a run is the hook's appliedTexture at the call if one
\* is set, otherwise the textureFile argument, and stays that for the whole
\* run; with neither, the run goes from the loaded model directly to the
\* transform: no texture URL is created, no texture is applied and none fails.
C28_TextureOfRun == []C28_State /\ [][C28_Step]_vars

\* a run is applying the texture that was applied when it was called, while
\* another one has been selected since
C28_Witness ==
    \E r \in Runs :
        /\ run[r].pc = "texturing"
        /\ run[r].textureToUse = "good.png"
        /\ appliedTexture = "corrupt.png"

----------------------------------------------------------------------------
(* Termination *)

\* C29: every run that has started settles, as done or failed, and
\* isGenerating is false again, whatever the frame count and whatever the
\* loaders, the texture loader and the frame images answer.
C29_EveryRunSettles ==
    \A r \in Runs :
        InFlight(r) ~> (run[r].pc \in {"done", "failed"} /\ ~isGenerating)

----------------------------------------------------------------------------
(* The hook state under overlapping runs *)

\* C30: isGenerating is true whenever a run is in flight; and when no run is
\* in flight the hook shows the state of one run, the last to settle: an
\* artifact with no error and progress 100 if it is done, an error with no
\* artifact if it failed.
C30_StateOfLastRun ==
    /\ (\E r \in Runs : InFlight(r)) => isGenerating
    /\ (\A r \in Runs : ~InFlight(r)) =>
          /\ ~(generatedData # NoData /\ error # None)
          /\ generatedData # NoData => progress = Rat(100, 1)

----------------------------------------------------------------------------
(* The texture list *)

\* C31: the textures list holds at most maxTextures files, every file in it
\* has an accepted extension, and texturePreviews has an entry for the name
\* of every file in it.
C31_TextureList ==
    /\ Len(textures) <= ResolveMaxTextures(options.maxTextures)
    /\ \A i \in DOMAIN textures :
          /\ Accepted(textures[i])
          /\ GetTexturePreview(textures[i]) # 0

\* the list is full, with files of two names, after a preview was dropped
C31_Witness ==
    /\ Len(textures) = options.maxTextures
    /\ \E i, j \in DOMAIN textures : textures[i] # textures[j]
    /\ \E u \in DOMAIN previewUrls :
          \A name \in UploadFiles : GetTexturePreview(name) # u

----------------------------------------------------------------------------
(* Selected and applied texture *)

C32_State ==
    /\ appliedTexture = selectedTexture
    /\ textureApplied => appliedTexture # None

C32_Step ==
    /\ ~textureApplied /\ textureApplied' =>
          /\ ApplySelectedTexture
          /\ appliedTexture' = selectedTexture
          /\ selectedTexture' = selectedTexture
    /\ textureApplied /\ selectedTexture' # selectedTexture => ~textureApplied'
    /\ (\E t \in TextureFiles \cup {None} : SelectTexture(t)) => ~textureApplied'

\* C32: appliedTexture always equals selectedTexture; textureApplied is true
\* only with a texture applied, it becomes true only by applySelectedTexture,
\* and every change of the selection, and every selectTexture, makes it false.
C32_AppliedIsSelected == []C32_State /\ [][C32_Step]_vars

\* the selected texture has been applied, then another texture was removed
C32_Witness ==
    /\ textureApplied
    /\ appliedTexture = "corrupt.png"
    /\ textures = <<"corrupt.png">>
    /\ Len(previewUrls) = 2

----------------------------------------------------------------------------
(* The viewer's current frame *)

\* the frame at horizontal fraction p = x / width, x within the container
FrameAtFraction(x, width, frameCount) ==
    Min((Max(0, Min(x, width)) * frameCount) \div width, frameCount - 1)

C33_State == viewer.currentFrame \in 0..(viewer.frameCount - 1)

C33_Step ==
    /\ \A x \in Positions, width \in Widths :
          /\ viewer.hover
          /\ HandleMouseMove(x, width, FALSE) \/ HandleTouchMove(x, width, FALSE)
          => viewer'.currentFrame = FrameAtFraction(x, width, viewer.frameCount)
    /\ /\ viewer.hover
       /\ \/ HandleMouseEnter
          \/ \E x \in Positions, width \in Widths, onButton \in BOOLEAN :
                HandleTouchStart(x, width, onButton)
       => ~viewer'.isPlaying
    /\ viewer.hover /\ (HandleMouseLeave \/ HandleTouchEnd) => viewer'.currentFrame = 0
    /\ \A url \in StripUrls \ {""} : UrlChanges(url) => viewer'.currentFrame = 0

\* C33, as it holds: with a fixed frameCount >= 1, currentFrame stays in
\* [0, frameCount - 1]; in a viewer with hover enabled a move of the pointer
\* away from any button, at horizontal fraction p, selects frame
\* min(floor(p x frameCount), frameCount - 1), entering stops playback and
\* leaving resets currentFrame to 0; a change to a non-empty URL resets
\* currentFrame to 0.
C33_CurrentFrame == []C33_State /\ [][C33_Step]_vars

\* the pointer is at the right edge of a hovered viewer of three frames
C33_Witness ==
    /\ viewer.hover
    /\ viewer.isHovering
    /\ viewer.frameCount = 3
    /\ viewer.currentFrame = 2

C33_StepAsClaimed ==
    /\ \A x \in Positions, width \in Widths, onButton \in BOOLEAN :
          HandleMouseMove(x, width, onButton) \/ HandleTouchMove(x, width, onButton)
          => viewer'.currentFrame = FrameAtFraction(x, width, viewer.frameCount)
    /\ \/ HandleMouseEnter
       \/ \E x \in Positions, width \in Widths, onButton \in BOOLEAN :
             HandleTouchStart(x, width, onButton)
       => ~viewer'.isPlaying
    /\ HandleMouseLeave \/ HandleTouchEnd => viewer'.currentFrame = 0
    /\ \A url \in StripUrls : UrlChanges(url) => viewer'.currentFrame = 0

\* C33, as claimed: currentFrame stays in [0, frameCount - 1]; every move at
\* horizontal fraction p selects frame min(floor(p x frameCount),
\* frameCount - 1), every enter stops playback, and every leave and every
\* change of the URL resets currentFrame to 0.
C33_CurrentFrameAsClaimed == []C33_State /\ [][C33_StepAsClaimed]_vars

----------------------------------------------------------------------------
(* The generator page, src/unnamed/part_000, with its texture selector,      *)
(* src/src/components/SpriteStripViewer.tsx lines 239-358                    *)

\* the options the page passes to the hook (lines 142-151): ratio '4:3',
\* maxTextures 10, no callbacks.  The page leaves frameCount to the default;
\* the frame loop is cut to one frame here.
PageOptions ==
    [frameCount |-> 1, ratio |-> "4:3", onGenerate |-> FALSE, onSubmit |-> FALSE,
     maxTextures |-> DefaultMaxTextures]

InitPage ==
    /\ options = PageOptions
    /\ isGenerating = FALSE
    /\ progress = Rat(0, 1)
    /\ generatedData = NoData
    /\ error = None
    /\ appliedTexture = None
    /\ selectedTexture = None
    /\ textureApplied = FALSE
    /\ textures = <<>>
    /\ texturePreviews = NoPreviews
    /\ previewUrls = <<>>
    /\ mounted = TRUE
    /\ legacyTexture = None
    /\ viewer = NoViewer
    /\ run = [r \in Runs |-> IdleRun]
    /\ objectUrls = [u \in {} |-> 0]
    /\ active = 0

\* the files of the textures list
Listed == {textures[i] : i \in DOMAIN textures}

\* part_000 lines 163-165, called by TextureUploadArea (lines 39-49) with the
\* files of the upload area
HandleTexturesChange(newTextures) ==
    /\ Len(textures) + Len(newTextures) <= MaxTextures
    /\ AddTextures(newTextures)

\* part_000 lines 167-172, called by a click on a tile of the selector
\* (line 306): the tile's texture, or null if the tile is the selected one
HandleTextureSelect(tile) ==
    /\ tile \in Listed
    /\ IF selectedTexture = tile
       THEN SelectTexture(None)
       ELSE /\ active = 0
            /\ selectedTexture' = tile
            /\ appliedTexture' = tile
            /\ textureApplied' = FALSE
            /\ legacyTexture' = tile
            /\ UNCHANGED <<options, hookState, run, objectUrls, active, previewState,
                           viewer>>

\* the selector's removeTexture (lines 261-268): the remaining textures go to
\* onTexturesChange, which is handleTexturesChange and so addTextures; then,
\* if the removed texture was the selected one, onTextureSelect(null)
SelectorRemoveTexture(textureName) ==
    /\ active = 0
    /\ textureName \in Listed
    /\ LET updatedTextures == SelectSeq(textures, LAMBDA t : t # textureName)
           maxTextures == ResolveMaxTextures(options.maxTextures)
           validTextures == SelectSeq(Slice(updatedTextures, maxTextures - Len(textures)),
                                      Accepted)
           new == NewPreviews(texturePreviews, previewUrls, validTextures)
       IN
       /\ Len(textures) + Len(validTextures) <= MaxTextures
       /\ IF Len(validTextures) > 0
          THEN /\ Len(new.urls) <= MaxPreviewUrls
               /\ textures' = textures \o validTextures
               /\ texturePreviews' = new.previews
               /\ previewUrls' = EffectCleanup(new.urls, texturePreviews)
          ELSE UNCHANGED <<textures, texturePreviews, previewUrls>>
       /\ IF selectedTexture = textureName
          THEN /\ selectedTexture' = None
               /\ appliedTexture' = None
               /\ textureApplied' = FALSE
          ELSE IF selectedTexture = None /\ Len(validTextures) > 0
               THEN /\ selectedTexture' = validTextures[1]
                    /\ appliedTexture' = validTextures[1]
                    /\ textureApplied' = FALSE
               ELSE UNCHANGED <<selectedTexture, appliedTexture, textureApplied>>
    /\ UNCHANGED <<options, hookState, run, objectUrls, active, mounted, legacyTexture,
                   viewer>>

\* the selector's clearAll (lines 270-273): onTexturesChange([]), which adds
\* nothing, then onTextureSelect(null)
SelectorClearAll ==
    /\ textures # <<>>
    /\ SelectTexture(None)

\* part_000 lines 153-160, behind the submit button (line 302)
HandleSubmit(file) ==
    /\ ~isGenerating
    /\ file # None
    /\ GenerateSpriteStrip(file, IF selectedTexture # None THEN selectedTexture
                                                           ELSE legacyTexture)

NextPage ==
    \/ \E newTextures \in Uploads : HandleTexturesChange(newTextures)
    \/ \E tile \in TextureFiles : HandleTextureSelect(tile)
    \/ \E textureName \in TextureFiles : SelectorRemoveTexture(textureName)
    \/ SelectorClearAll
    \/ \E file \in ModelFiles : HandleSubmit(file)
    \/ \E r \in Runs : BeginLoad(r)
    \/ \E r \in Runs : DecoderOnLoad(r)
    \/ \E r \in Runs, reason \in DecoderErrors : DecoderOnError(r, reason)
    \/ \E r \in Runs : AfterLoad(r)
    \/ \E r \in Runs : TextureOnLoad(r)
    \/ \E r \in Runs : TextureOnError(r)
    \/ \E r \in Runs : Transform(r)
    \/ \E r \in Runs : RenderStep(r)
    \/ \E r \in Runs : TimerFires(r)
    \/ \E r \in Runs : BeginCompose(r)
    \/ \E r \in Runs, k \in 1..MaxFrameCount : ImageOnLoad(r, k)
    \/ \E r \in Runs : Finish(r)
    \/ \E r \in Runs : CatchAndFinally(r)

SpecPage == InitPage /\ [][NextPage]_vars

\* C34: after the selector's remove button the textures list does not contain
\* the removed texture, after its clear-all button it contains none, and
\* after either no texture is in the list more than once.
C34_RemovedFromList ==
    [][/\ \A textureName \in TextureFiles :
             SelectorRemoveTexture(textureName) =>
                 (/\ \A i \in DOMAIN textures' : textures'[i] # textureName
                  /\ \A i, j \in DOMAIN textures' :
                       (textures'[i] = textures'[j]) => (i = j))
       /\ SelectorClearAll => textures' = <<>>]_vars

\* C35: a run that the page starts while no texture is selected applies no
\* texture to the model.
C35_NoTextureAfterDeselect ==
    [][\A r \in Runs :
          /\ NewRun(r) /\ selectedTexture = None => run'[r].textureToUse = None
          /\ run[r].textureToUse = None => run'[r].pc # "texturing"]_vars

=============================================================================
